---------------------------- MODULE Spec2Model ----------------------------
(***************************************************************************)
(* A model of the contact finder of scripts/scrapers/contact_finder.py:    *)
(* the e-mail validator, the classifier, the ranker and the page scan of   *)
(* ContactFinder, with the web site as the environment; and of the         *)
(* discovery engine of scripts/scrapers/podcast_discovery.py: the dedupe   *)
(* key, the two searches and the enrichment, with the search services and  *)
(* the web pages as the environment.                                       *)
(*                                                                         *)
(* Strings are TLA+ strings, read character by character with SubSeq.      *)
(* A confidence is kept in hundredths (0.9 is 90), so that comparisons are *)
(* those of the floats the code compares.                                  *)
(***************************************************************************)
EXTENDS Integers, Sequences, FiniteSets, TLC

VARIABLES
    session,      \* ContactFinder.session: "none", "open" or "closed"
    pc,           \* where the single flow of control is
    website_url,  \* the website_url argument of the find_contacts calls
    web,          \* the environment: path index -> outcome of fetching that URL
    pathIdx,      \* _scan_website: index of the next path of paths_to_check
    all_contacts, \* _scan_website.contacts / find_contacts.all_contacts
    fetched,      \* the fetches issued by the current call: <<url, outcome kind>>
    result,       \* what the last find_contacts call returned
    history,      \* one record per find_contacts call that returned
    call,         \* the arguments of a call of one of the pure methods
    ret,          \* what that call returned
    owner,        \* the class of the object the `async with` scopes are of
    creds,        \* PodcastDiscoveryEngine: which API keys were given
    esession,     \* self.session of that object: 0 (None) or a place in sessions
    sessions,     \* every ClientSession created so far: "open" or "closed"
    scope,        \* "in" inside an `async with` block of the object, else "out"
    requests,     \* the requests of the last operation: whom, with which session
    found,        \* the list the last search returned (the caller holds it)
    last,         \* the last operation: its arguments and what it met
    raised,       \* whether the last operation let an exception out
    world         \* the environment of the engine: what each service and page answers

engineVars == <<owner, creds, esession, sessions, scope, requests, found, last,
                raised, world>>

vars == <<session, pc, website_url, web, pathIdx, all_contacts, fetched,
          result, history, call, ret, engineVars>>

\* No engine: the variables of the discovery engine at rest
EngineIdle ==
    /\ owner = "none"
    /\ creds = [ln |-> FALSE, pi |-> FALSE]
    /\ esession = 0
    /\ sessions = <<>>
    /\ scope = "out"
    /\ requests = <<>>
    /\ found = <<>>
    /\ last = [op |-> "none"]
    /\ raised = FALSE
    /\ world = [kind |-> "none"]

None == "None"

-----------------------------------------------------------------------------
(* Characters and strings *)

LowerAlpha == "abcdefghijklmnopqrstuvwxyz"
UpperAlpha == "ABCDEFGHIJKLMNOPQRSTUVWXYZ"
DigitChars == "0123456789"

CharAt(s, i) == SubSeq(s, i, i)

CharsOf(s) == { CharAt(s, i) : i \in 1..Len(s) }

Letters == CharsOf(LowerAlpha) \cup CharsOf(UpperAlpha)
Digits == CharsOf(DigitChars)

\* [a-zA-Z0-9._%+-]
LocalClass == Letters \cup Digits \cup {".", "_", "%", "+", "-"}
\* [a-zA-Z0-9.-]
DomainClass == Letters \cup Digits \cup {".", "-"}
\* \w of the re module, on ASCII
WordClass == Letters \cup Digits \cup {"_"}
\* [A-Z|a-z]: the bar is a member of the class
TextTldClass == Letters \cup {"|"}

\* str.lower() of one ASCII character
LowerChar(c) ==
    IF c \in CharsOf(UpperAlpha)
    THEN CharAt(LowerAlpha, CHOOSE i \in 1..26 : CharAt(UpperAlpha, i) = c)
    ELSE c

RECURSIVE Lower(_)
\* str.lower()
Lower(s) ==
    IF s = "" THEN ""
    ELSE LowerChar(CharAt(s, 1)) \o Lower(SubSeq(s, 2, Len(s)))

\* `sub in s`, and re.search of a pattern that is a literal
Contains(s, sub) ==
    \E i \in 1..(Len(s) - Len(sub) + 1) : SubSeq(s, i, i + Len(sub) - 1) = sub

AllIn(s, from, to, class) ==
    \A i \in from..to : CharAt(s, i) \in class

-----------------------------------------------------------------------------
(* ContactFinder._is_valid_email *)

skip_patterns ==
    << "noreply", "no-reply", "donotreply", "mailer-daemon",
       "example.com", "example.org", "test.com",
       ".png", ".jpg", ".gif", ".svg",
       "wixpress", "sentry.io", "cloudflare",
       "privacy@", "abuse@", "postmaster@", "webmaster@" >>

\* re.match(r'^[a-zA-Z0-9._%+-]+@[a-zA-Z0-9.-]+\.[a-zA-Z]{2,}$', email):
\* a is the place of the '@', d the place of the dot before the last run of
\* letters, n the end of the match; '$' also matches before one final newline.
FormatMatch(email) ==
    \E n \in {Len(email)} \cup
             {m \in {Len(email) - 1} : m >= 0 /\ CharAt(email, m + 1) = "\n"} :
      \E a \in 2..n :
        /\ CharAt(email, a) = "@"
        /\ AllIn(email, 1, a - 1, LocalClass)
        /\ \E d \in (a + 2)..(n - 2) :
             /\ CharAt(email, d) = "."
             /\ AllIn(email, a + 1, d - 1, DomainClass)
             /\ AllIn(email, d + 1, n, Letters)

IsValidEmail_RejectsInfo(email) ==
    /\ email # ""
    /\ Contains(email, "@")
    /\ \A k \in 1..Len(skip_patterns) : ~Contains(Lower(email), skip_patterns[k])
    /\ ~Contains(Lower(email), "info@")
    /\ FormatMatch(email)

IsValidEmail_ShortSkipList(email) ==
    /\ email # ""
    /\ Contains(email, "@")
    /\ \A k \in 1..7 : ~Contains(Lower(email), skip_patterns[k])
    /\ FormatMatch(email)

IsValidEmail(email) ==
    /\ email # ""
    /\ Contains(email, "@")
    /\ \A k \in 1..Len(skip_patterns) : ~Contains(Lower(email), skip_patterns[k])
    /\ FormatMatch(email)

-----------------------------------------------------------------------------
(* ContactFinder._classify_email *)

booking_patterns ==
    << "booking", "guest", "podcast", "media", "inquir", "press", "interview" >>

\* The patterns are r'@gmail\.com', ...: each matches its literal text anywhere.
host_patterns ==
    << "@gmail.com", "@yahoo.com", "@outlook.com", "@icloud.com", "@me.com" >>

\* f"{email} {context}".lower()
Combined(email, context) == Lower(email \o " " \o context)

ClassifyEmail_HostFirst(email, context) ==
    IF \E k \in 1..Len(host_patterns) : Contains(Lower(email), host_patterns[k])
    THEN "host"
    ELSE IF \E k \in 1..Len(booking_patterns) :
                Contains(Combined(email, context), booking_patterns[k])
    THEN "booking"
    ELSE IF \/ Contains(Combined(email, context), "producer")
            \/ Contains(Combined(email, context), "production")
    THEN "producer"
    ELSE "general"

ClassifyEmail(email, context) ==
    IF \E k \in 1..Len(booking_patterns) :
           Contains(Combined(email, context), booking_patterns[k])
    THEN "booking"
    ELSE IF \E k \in 1..Len(host_patterns) :
                Contains(Lower(email), host_patterns[k])
    THEN "host"
    ELSE IF \/ Contains(Combined(email, context), "producer")
            \/ Contains(Combined(email, context), "production")
    THEN "producer"
    ELSE "general"

-----------------------------------------------------------------------------
(* ContactFinder._rank_contacts *)

ContactResult(email, source_url, contact_type, confidence) ==
    [ email |-> email, source_url |-> source_url,
      contact_type |-> contact_type, confidence |-> confidence ]

\* type_priority.get(c.contact_type, 99)
type_priority(contact_type) ==
    CASE contact_type = "booking" -> 0
      [] contact_type = "host" -> 1
      [] contact_type = "producer" -> 2
      [] contact_type = "general" -> 3
      [] OTHER -> 99

\* The dict `seen`, as the sequence of its values in the order of its keys: a
\* key keeps the place of its first insertion when its value is replaced.
SeenPut_RaiseConfidence(seen, contact) ==
    IF \E i \in 1..Len(seen) : seen[i].email = contact.email
    THEN LET i == CHOOSE i \in 1..Len(seen) : seen[i].email = contact.email
         IN  IF contact.confidence > seen[i].confidence
             THEN [seen EXCEPT ![i].confidence = contact.confidence]
             ELSE seen
    ELSE Append(seen, contact)

SeenPut_FirstWins(seen, contact) ==
    IF \E i \in 1..Len(seen) : seen[i].email = contact.email
    THEN seen
    ELSE Append(seen, contact)

SeenPut_LastWins(seen, contact) ==
    IF \E i \in 1..Len(seen) : seen[i].email = contact.email
    THEN LET i == CHOOSE i \in 1..Len(seen) : seen[i].email = contact.email
         IN  IF contact.confidence >= seen[i].confidence
             THEN [seen EXCEPT ![i] = contact]
             ELSE seen
    ELSE Append(seen, contact)

SeenPut(seen, contact) ==
    IF \E i \in 1..Len(seen) : seen[i].email = contact.email
    THEN LET i == CHOOSE i \in 1..Len(seen) : seen[i].email = contact.email
         IN  IF contact.confidence > seen[i].confidence
             THEN [seen EXCEPT ![i] = contact]
             ELSE seen
    ELSE Append(seen, contact)

RECURSIVE Unique(_)
\* list(seen.values()) after the loop over contacts
Unique(contacts) ==
    IF contacts = <<>> THEN <<>>
    ELSE SeenPut(Unique(SubSeq(contacts, 1, Len(contacts) - 1)),
                 contacts[Len(contacts)])

\* The sort key (type_priority, -confidence), compared as tuples are.
KeyLess_ByConfidenceFirst(a, b) ==
    \/ -a.confidence < -b.confidence
    \/ /\ a.confidence = b.confidence
       /\ type_priority(a.contact_type) < type_priority(b.contact_type)

KeyLess(a, b) ==
    \/ type_priority(a.contact_type) < type_priority(b.contact_type)
    \/ /\ type_priority(a.contact_type) = type_priority(b.contact_type)
       /\ -a.confidence < -b.confidence

\* c put into the sorted sequence s behind every element whose key is not
\* greater than its own.
InsertSorted(s, c) ==
    LET k == Cardinality({ i \in 1..Len(s) : ~KeyLess(c, s[i]) })
    IN  SubSeq(s, 1, k) \o <<c>> \o SubSeq(s, k + 1, Len(s))

RECURSIVE SortStable(_)
\* list.sort(key=...): a stable sort
SortStable(s) ==
    IF s = <<>> THEN <<>>
    ELSE InsertSorted(SortStable(SubSeq(s, 1, Len(s) - 1)), s[Len(s)])

RankContacts(contacts) == SortStable(Unique(contacts))

\* The None of an Optional[ContactResult]
NoContact == [none |-> TRUE]

TopTwo_RepeatsPrimary(ranked) ==
    << IF Len(ranked) > 0 THEN ranked[1] ELSE NoContact,
       IF Len(ranked) > 1 THEN ranked[1] ELSE NoContact >>

\* find_contacts: ranked[0] and ranked[1], None where there is none
TopTwo(ranked) ==
    << IF Len(ranked) > 0 THEN ranked[1] ELSE NoContact,
       IF Len(ranked) > 1 THEN ranked[2] ELSE NoContact >>

-----------------------------------------------------------------------------
(* ContactFinder._scrape_page_for_emails: the two channels of one page *)

\* The first place at or after i where sub occurs in s, 0 if there is none
RECURSIVE IndexFrom(_, _, _)
IndexFrom(s, sub, i) ==
    IF i + Len(sub) - 1 > Len(s) THEN 0
    ELSE IF SubSeq(s, i, i + Len(sub) - 1) = sub THEN i
    ELSE IndexFrom(s, sub, i + 1)

AnchorOpen == "<a href=\""
AnchorClose == "</a>"

\* BeautifulSoup(html, 'html.parser').find_all('a', href=...): the anchors
\* <a href="...">text</a> of the document, in document order, each with its
\* href attribute and its text (link.get_text()).
RECURSIVE Anchors(_, _)
Anchors(html, i) ==
    LET open == IndexFrom(html, AnchorOpen, i)
        hrefFrom == open + Len(AnchorOpen)
        quote == IndexFrom(html, "\"", hrefFrom)
        close == IndexFrom(html, AnchorClose, quote + 2)
    IN  IF open = 0 \/ quote = 0 \/ close = 0
            \/ CharAt(html, quote + 1) # ">"
        THEN <<>>
        ELSE << [ href |-> SubSeq(html, hrefFrom, quote - 1),
                  text |-> SubSeq(html, quote + 2, close - 1) ] >>
             \o Anchors(html, close + Len(AnchorClose))

\* href=re.compile(r'^mailto:', re.I)
IsMailtoHref(href) == Len(href) >= 7 /\ Lower(SubSeq(href, 1, 7)) = "mailto:"

RECURSIVE SelectMailto(_)
SelectMailto(anchors) ==
    IF anchors = <<>> THEN <<>>
    ELSE (IF IsMailtoHref(anchors[1].href) THEN <<anchors[1]>> ELSE <<>>)
         \o SelectMailto(Tail(anchors))

\* str.replace(sub, ''): every occurrence, left to right
RECURSIVE RemoveAll(_, _)
RemoveAll(s, sub) ==
    LET i == IndexFrom(s, sub, 1)
    IN  IF i = 0 THEN s
        ELSE SubSeq(s, 1, i - 1)
             \o RemoveAll(SubSeq(s, i + Len(sub), Len(s)), sub)

\* s.split(c)[0]
BeforeFirst(s, c) ==
    LET i == IndexFrom(s, c, 1)
    IN  IF i = 0 THEN s ELSE SubSeq(s, 1, i - 1)

Whitespace == {" ", "\n", "\t", "\r"}

\* str.strip()
RECURSIVE Strip(_)
Strip(s) ==
    IF s = "" THEN s
    ELSE IF CharAt(s, 1) \in Whitespace THEN Strip(SubSeq(s, 2, Len(s)))
    ELSE IF CharAt(s, Len(s)) \in Whitespace THEN Strip(SubSeq(s, 1, Len(s) - 1))
    ELSE s

\* href.replace('mailto:', '').split('?')[0].strip()
MailtoAddress(href) == Strip(BeforeFirst(RemoveAll(href, "mailto:"), "?"))

IsWordAt(s, p) == p >= 1 /\ p <= Len(s) /\ CharAt(s, p) \in WordClass

\* \b between the characters p - 1 and p of s
WordBoundary(s, p) == IsWordAt(s, p - 1) # IsWordAt(s, p)

\* The end of the longest run of characters of class that starts at i
\* (i - 1 when s[i] is not of the class)
RECURSIVE RunEnd(_, _, _)
RunEnd(s, i, class) ==
    IF i <= Len(s) /\ CharAt(s, i) \in class
    THEN RunEnd(s, i + 1, class)
    ELSE i - 1

\* The ends of the matches of
\*   \b[A-Za-z0-9._%+-]+@[A-Za-z0-9.-]+\.[A-Z|a-z]{2,7}\b
\* that start at i, each as <<k, t>>: the domain run ends at k, the dot is at
\* k + 1 and the last part has t characters.
MatchSplits(s, i) ==
    IF ~(WordBoundary(s, i) /\ i <= Len(s) /\ CharAt(s, i) \in LocalClass)
    THEN {}
    ELSE LET at == RunEnd(s, i, LocalClass) + 1
             m == RunEnd(s, at + 1, DomainClass)
         IN  IF at > Len(s) \/ CharAt(s, at) # "@" THEN {}
             ELSE { kt \in ((at + 1)..(m - 1)) \X (2..7) :
                      /\ CharAt(s, kt[1] + 1) = "."
                      /\ kt[1] + 1 + kt[2] <= Len(s)
                      /\ AllIn(s, kt[1] + 2, kt[1] + 1 + kt[2], TextTldClass)
                      /\ WordBoundary(s, kt[1] + 2 + kt[2]) }

\* The end of the match the regex engine finds at i (0: no match at i): each
\* repetition is greedy, so the longest domain run and then the longest last
\* part that let the rest match.
MatchEnd(s, i) ==
    LET splits == MatchSplits(s, i)
    IN  IF splits = {} THEN 0
        ELSE LET best == CHOOSE kt \in splits :
                             \A o \in splits :
                                 \/ o[1] < kt[1]
                                 \/ (o[1] = kt[1] /\ o[2] <= kt[2])
             IN  best[1] + 1 + best[2]

\* email_pattern.findall(html): the matches from left to right, none
\* overlapping another
RECURSIVE FindAll(_, _)
FindAll(s, i) ==
    IF i > Len(s) THEN <<>>
    ELSE LET e == MatchEnd(s, i)
         IN  IF e = 0 THEN FindAll(s, i + 1)
             ELSE <<SubSeq(s, i, e)>> \o FindAll(s, e + 1)

RECURSIVE MailtoContacts_FlatConfidence(_, _)
MailtoContacts_FlatConfidence(links, url) ==
    IF links = <<>> THEN <<>>
    ELSE LET email == MailtoAddress(links[1].href)
         IN  (IF IsValidEmail(email)
              THEN << ContactResult(Lower(email), url,
                                    ClassifyEmail(email, links[1].text), 70) >>
              ELSE <<>>)
             \o MailtoContacts_FlatConfidence(Tail(links), url)

\* Method 1: the loop over mailto_links
RECURSIVE MailtoContacts(_, _)
MailtoContacts(links, url) ==
    IF links = <<>> THEN <<>>
    ELSE LET email == MailtoAddress(links[1].href)
             contact_type == ClassifyEmail(email, links[1].text)
         IN  (IF IsValidEmail(email)
              THEN << ContactResult(Lower(email), url, contact_type,
                                    IF contact_type = "booking" THEN 90 ELSE 70) >>
              ELSE <<>>)
             \o MailtoContacts(Tail(links), url)

RECURSIVE TextContacts_ComparesRaw(_, _, _)
TextContacts_ComparesRaw(text_emails, url, contacts) ==
    IF text_emails = <<>> THEN contacts
    ELSE LET email == text_emails[1]
         IN  TextContacts_ComparesRaw(
                 Tail(text_emails), url,
                 IF /\ IsValidEmail(email)
                    /\ ~\E k \in 1..Len(contacts) : contacts[k].email = email
                 THEN Append(contacts,
                             ContactResult(Lower(email), url,
                                           ClassifyEmail(email, ""), 60))
                 ELSE contacts)

\* Method 2: the loop over text_emails, contacts being the list so far
RECURSIVE TextContacts(_, _, _)
TextContacts(text_emails, url, contacts) ==
    IF text_emails = <<>> THEN contacts
    ELSE LET email == text_emails[1]
         IN  TextContacts(
                 Tail(text_emails), url,
                 IF /\ IsValidEmail(email)
                    /\ ~\E k \in 1..Len(contacts) : contacts[k].email = Lower(email)
                 THEN Append(contacts,
                             ContactResult(Lower(email), url,
                                           ClassifyEmail(email, ""), 60))
                 ELSE contacts)

\* The body of the `async with` once the page is read: both channels
ExtractContacts(html, url) ==
    TextContacts(FindAll(html, 1), url,
                 MailtoContacts(SelectMailto(Anchors(html, 1)), url))

-----------------------------------------------------------------------------
(* ContactFinder._scan_website and find_contacts *)

paths_to_check ==
    << "/contact", "/contact-us", "/be-a-guest", "/guest", "/podcast",
       "/about", "/media", "/press", "/booking", "" >>

\* str.rstrip('/')
RECURSIVE RStripSlash(_)
RStripSlash(s) ==
    IF s # "" /\ CharAt(s, Len(s)) = "/"
    THEN RStripSlash(SubSeq(s, 1, Len(s) - 1))
    ELSE s

PageUrl_KeepSlash(base_url, path) == base_url \o path

\* f"{base_url.rstrip('/')}{path}"
PageUrl(base_url, path) == RStripSlash(base_url) \o path

\* The documents the site of the model serves
HomeDoc ==
    "<a href=\"mailto:press@show.com\">Press</a> contact us at info@show.com"

Docs ==
    { HomeDoc,
      "<a href=\"mailto:Info@Show.com?subject=Hi\">Producer</a> <img src=\"logo@2x.png\"> noreply@show.com",
      "<a href=\"mailto:jane@gmail.com\">Booking inquiries</a> or jane@gmail.com, press@show.com." }

NotFoundDoc == "<p>Not found. Mail help@show.com</p>"

\* A page that names one address twice, with two link texts
JaneTwiceDoc ==
    "<a href=\"mailto:jane@show.com\">Jane</a> <a href=\"mailto:jane@show.com\">Our producer</a>"

WebsiteArgs == { None, "https://show.com", "https://show.com/" }

SiteUrls ==
    { PageUrl(b, paths_to_check[i]) :
          b \in WebsiteArgs \ {None}, i \in 1..Len(paths_to_check) }

\* ExtractContacts of each document at each URL, computed once
ScanTable ==
    [ html \in Docs \cup {NotFoundDoc, JaneTwiceDoc} |->
          [ url \in SiteUrls |-> ExtractContacts(html, url) ] ]

Extracted(html, url) ==
    IF html \in DOMAIN ScanTable /\ url \in SiteUrls
    THEN ScanTable[html][url]
    ELSE ExtractContacts(html, url)

\* What session.get(url) does: it raises (kind "raise": a timeout, a network
\* error), or answers with a status and a body; the body of a 200 may fail to
\* be read (kind "badbody": resp.text() raises).
Raises == [kind |-> "raise", status |-> 0, html |-> ""]
Answers(status, html) == [kind |-> "status", status |-> status, html |-> html]
BadBody == [kind |-> "badbody", status |-> 200, html |-> ""]

\* A session that is None or closed: self.session.get raises.
Fetch(sess, outcome) == IF sess = "open" THEN outcome ELSE Raises

ScrapePageForEmails_NoStatusCheck(url, outcome) ==
    [ raised |-> FALSE,
      contacts |-> IF outcome.kind = "status"
                   THEN Extracted(outcome.html, url)
                   ELSE <<>> ]

ScrapePageForEmails_NoExcept(url, outcome) ==
    [ raised |-> outcome.kind # "status",
      contacts |-> IF outcome.kind = "status" /\ outcome.status = 200
                   THEN Extracted(outcome.html, url)
                   ELSE <<>> ]

\* _scrape_page_for_emails: the list it returns, and whether an exception
\* leaves it. Every exception of the try block is caught and logged.
ScrapePageForEmails(url, outcome) ==
    [ raised |-> FALSE,
      contacts |-> IF outcome.kind = "status" /\ outcome.status = 200
                   THEN Extracted(outcome.html, url)
                   ELSE <<>> ]

\* _check_directories: a placeholder that returns the empty list
CheckDirectories == <<>>

-----------------------------------------------------------------------------
(* The arguments the pure methods are called with *)

MaxTokenLen == 6

TokenAlphabet == {"a", "@", ".", ":", "\n"}

\* the string made of the characters cs, in order
RECURSIVE Join(_)
Join(cs) == IF Len(cs) = 0 THEN "" ELSE Head(cs) \o Join(Tail(cs))

\* Tokens put together from parts: a local part, the '@'s, the start of the
\* domain, the dot, the last label and what follows it.
BuiltTokens ==
    { l \o a \o d \o t \o e :
          l \in { "", "a", "a:", "A_b%c+d-1", "j d" },
          a \in { "@", "", "@x@" },
          d \in { "", "b.", "b:c.", "x-y.Z9.", "b" },
          t \in { "", "c", "co", "c1", "COM", "c:m" },
          e \in { "", "\n", " ", ".", "\n\n" } }

SampleTokens ==
    { "noreply@example.com", "privacy@site.com", "photo.png@cdn.site.com",
      "team@wixpress.com", "Jane@WixPress.com", "booking@showname.com",
      "press@show.com", "info@show.com", "jane@gmail.com", "Jane@Gmail.com",
      "logo@2x.png", "a@b.c1", "a@b.c", "jane doe@show.com",
      "MAILTO:booking@show.com", "booking@show.com, jane@show.com",
      "jane@show.com\n", "jane_d+pod%x@my-show.co.uk", "jane@show", "@show.com",
      "webmaster@show.com", "abuse@show.com", "x@sentry.io", "NoReply@show.com" }

\* The tokens given whole: the samples and the built ones.
Tokens == SampleTokens \cup BuiltTokens

NoCall == [fn |-> "none"]

\* No ContactFinder call is in progress: the state of the object as constructed.
FinderIdle ==
    /\ session = "none"
    /\ pc = "idle"
    /\ website_url = None
    /\ web = <<>>
    /\ pathIdx = 0
    /\ all_contacts = <<>>
    /\ fetched = <<>>
    /\ result = <<>>
    /\ history = <<>>

finderVars == <<session, pc, website_url, web, pathIdx, all_contacts, fetched,
                result, history>>

InitValid ==
    /\ FinderIdle
    /\ EngineIdle
    /\ \/ \E t \in Tokens : call = [fn |-> "_is_valid_email", email |-> t]
       \/ \E n \in 0..MaxTokenLen : \E cs \in [1..n -> TokenAlphabet] :
              call = [fn |-> "_is_valid_email", email |-> Join(cs)]
    /\ ret = <<>>

CallIsValidEmail ==
    /\ call.fn = "_is_valid_email"
    /\ ret = <<>>
    /\ ret' = << IsValidEmail(call.email) >>
    /\ UNCHANGED <<finderVars, engineVars, call>>

NextValid == CallIsValidEmail

SpecValid == InitValid /\ [][NextValid]_vars

-----------------------------------------------------------------------------
(* C8 *)

CountChar(s, c) == Cardinality({ i \in 1..Len(s) : CharAt(s, i) = c })

AtPlace(s) == CHOOSE i \in 1..Len(s) : CharAt(s, i) = "@"

LocalPart(s) == SubSeq(s, 1, AtPlace(s) - 1)

DomainPart(s) == SubSeq(s, AtPlace(s) + 1, Len(s))

HasDot(s) == \E i \in 1..Len(s) : CharAt(s, i) = "."

LastDot(s) ==
    CHOOSE i \in 1..Len(s) :
        CharAt(s, i) = "." /\ \A j \in (i + 1)..Len(s) : CharAt(s, j) # "."

\* The text of s after its last dot, and the text before that dot.
TrailingLabel(s) == SubSeq(s, LastDot(s) + 1, Len(s))
BeforeLabel(s) == SubSeq(s, 1, LastDot(s) - 1)

OnlyChars(s, class) == \A i \in 1..Len(s) : CharAt(s, i) \in class

NoSkipPattern(s) ==
    \A k \in 1..Len(skip_patterns) : ~Contains(Lower(s), skip_patterns[k])

\* One '@', something on both sides, and a domain that ends in a label of two
\* or more letters.
ShapeAsClaimed(s) ==
    /\ CountChar(s, "@") = 1
    /\ LocalPart(s) # ""
    /\ DomainPart(s) # ""
    /\ HasDot(DomainPart(s))
    /\ BeforeLabel(DomainPart(s)) # ""
    /\ Len(TrailingLabel(DomainPart(s))) >= 2
    /\ OnlyChars(TrailingLabel(DomainPart(s)), Letters)

\* s without one final newline
ChompNewline(s) ==
    IF s # "" /\ CharAt(s, Len(s)) = "\n" THEN SubSeq(s, 1, Len(s) - 1) ELSE s

\* The shape the code's pattern accepts: as claimed, and also the local part
\* made of [a-zA-Z0-9._%+-] only and the domain of [a-zA-Z0-9.-] only, one
\* final newline not counted.
ShapeOfPattern(s) ==
    /\ ShapeAsClaimed(ChompNewline(s))
    /\ OnlyChars(LocalPart(ChompNewline(s)), LocalClass)
    /\ OnlyChars(DomainPart(ChompNewline(s)), DomainClass)

ValidReturned == call.fn = "_is_valid_email" /\ ret # <<>>

\* C8 as stated: _is_valid_email accepts a token if and only if it has exactly
\* one '@' with a non-empty local part and domain, its domain ends in a label
\* of at least two letters, and its lower-cased form contains no deny-list
\* substring.
C8_AcceptsIffClaimedShape ==
    ValidReturned =>
        (ret[1] <=> (ShapeAsClaimed(call.email) /\ NoSkipPattern(call.email)))

\* C8 amended: _is_valid_email accepts a token if and only if it is
\* local@domain with a non-empty local part of [a-zA-Z0-9._%+-], a domain of
\* [a-zA-Z0-9.-] that ends in a dot and a label of at least two letters (one
\* final newline is tolerated), and its lower-cased form contains no deny-list
\* substring; noreply@example.com, privacy@site.com, photo.png@cdn.site.com and
\* the wixpress.com addresses are rejected and booking@showname.com accepted.
C8_AcceptsIffPatternShape ==
    ValidReturned =>
        /\ ret[1] <=> (ShapeOfPattern(call.email) /\ NoSkipPattern(call.email))
        /\ call.email \in { "noreply@example.com", "privacy@site.com",
                            "photo.png@cdn.site.com", "team@wixpress.com",
                            "Jane@WixPress.com" } => ~ret[1]
        /\ call.email = "booking@showname.com" => ret[1]

C8_Witness ==
    /\ ValidReturned
    /\ call.email = "booking@showname.com"
    /\ ret[1]

-----------------------------------------------------------------------------
(* Calls of _classify_email *)

SampleEmails ==
    { "jane@gmail.com", "Jane@Gmail.com", "booking@showname.com",
      "info@show.com", "press@show.com", "x@me.company.org",
      "producer@show.com", "jane@yahoo.com", "bob@mypodcast.fm",
      "pr@outlook.com", "amy@icloud.com", "amy@me.com", "team@production.co",
      "MEDIA@show.com", "jane@show.com" }

SampleContexts ==
    { "", "Booking inquiries", "Producer", "Our production team", "Jane",
      "Press", "Be a GUEST", "Email the host", "Interview requests",
      "Executive producer, media relations", "jane@gmail.com" }

InitClassify ==
    /\ FinderIdle
    /\ EngineIdle
    /\ call \in { [fn |-> "_classify_email", email |-> e, context |-> c] :
                  e \in SampleEmails, c \in SampleContexts }
    /\ ret = <<>>

CallClassifyEmail ==
    /\ call.fn = "_classify_email"
    /\ ret = <<>>
    /\ ret' = << ClassifyEmail(call.email, call.context) >>
    /\ UNCHANGED <<finderVars, engineVars, call>>

NextClassify == CallClassifyEmail

SpecClassify == InitClassify /\ [][NextClassify]_vars

-----------------------------------------------------------------------------
(* C7 *)

ClassifyReturned == call.fn = "_classify_email" /\ ret # <<>>

BookingKeywords ==
    { "booking", "guest", "podcast", "media", "inquir", "press", "interview" }

HasBookingKeyword ==
    \E kw \in BookingKeywords :
        Contains(Lower(call.email \o " " \o call.context), kw)

HasHostPattern ==
    \E k \in 1..Len(host_patterns) : Contains(Lower(call.email), host_patterns[k])

HasProducerWord ==
    \E w \in {"producer", "production"} :
        Contains(Lower(call.email \o " " \o call.context), w)

\* C7: _classify_email returns exactly one of booking, host, producer, general
\* by first-match precedence: booking whenever the lower-cased email+context
\* contains a booking keyword, whatever the domain and whatever the text says
\* of producers; host only when no booking keyword matches; producer only when
\* neither booking nor host matches; general otherwise. jane@gmail.com with
\* the context "Booking inquiries" is booking.
C7_FirstMatchPrecedence ==
    ClassifyReturned =>
        /\ ret[1] \in {"booking", "host", "producer", "general"}
        /\ (ret[1] = "booking") <=> HasBookingKeyword
        /\ (ret[1] = "host") => ~HasBookingKeyword
        /\ (ret[1] = "producer") => (~HasBookingKeyword /\ ~HasHostPattern)
        /\ (ret[1] = "general") <=>
               (~HasBookingKeyword /\ ~HasHostPattern /\ ~HasProducerWord)
        /\ (call.email = "jane@gmail.com" /\ call.context = "Booking inquiries")
               => ret[1] = "booking"

C7_Witness ==
    /\ ClassifyReturned
    /\ call.email = "jane@gmail.com"
    /\ call.context = "Booking inquiries"
    /\ ret[1] = "booking"

-----------------------------------------------------------------------------
(* Calls of _rank_contacts: the candidate lists of two pages, merged in the  *)
(* order of the scan and merged in another order                             *)

MaxPool == 3

RankEmails == {"a@show.com", "b@show.com", "c@show.com"}

RankPages == << "https://show.com/contact", "https://show.com" >>

\* contact type and confidence (in hundredths) of an observation
RankGrades ==
    { <<"booking", 90>>, <<"booking", 50>>, <<"general", 95>>,
      <<"host", 60>>, <<"producer", 90>> }

CandidatesOn(page) ==
    { ContactResult(e, RankPages[page], g[1], g[2]) :
          e \in RankEmails, g \in RankGrades }

\* contacts.extend(page_contacts), page after page in the given order
Merged(pages, order) == pages[order[1]] \o pages[order[2]]

ScanOrder == <<1, 2>>
OtherOrder == <<2, 1>>

InitRank ==
    /\ FinderIdle
    /\ EngineIdle
    /\ \E n1 \in 0..MaxPool : \E n2 \in 0..(MaxPool - n1) :
          \E l1 \in [1..n1 -> CandidatesOn(1)], l2 \in [1..n2 -> CandidatesOn(2)] :
              call = [fn |-> "_rank_contacts", pages |-> <<l1, l2>>,
                      order |-> OtherOrder]
    /\ ret = <<>>

CallRankContacts ==
    /\ call.fn = "_rank_contacts"
    /\ ret = <<>>
    /\ ret' = << RankContacts(Merged(call.pages, ScanOrder)) >>
    /\ UNCHANGED <<finderVars, engineVars, call>>

CallRankReordered ==
    /\ call.fn = "_rank_contacts"
    /\ Len(ret) = 1
    /\ ret' = Append(ret, RankContacts(Merged(call.pages, call.order)))
    /\ UNCHANGED <<finderVars, engineVars, call>>

NextRank == CallRankContacts \/ CallRankReordered

SpecRank == InitRank /\ [][NextRank]_vars

-----------------------------------------------------------------------------
(* C2, C3, C6 *)

\* The argument of the k-th call of _rank_contacts
RankInput(k) ==
    Merged(call.pages, IF k = 1 THEN ScanOrder ELSE call.order)

RankCalls == IF call.fn = "_rank_contacts" THEN 1..Len(ret) ELSE {}

\* The first observation of in[i]'s email that no observation of that email
\* exceeds in confidence.
FirstBest(in, i) ==
    CHOOSE k \in 1..Len(in) :
        /\ in[k].email = in[i].email
        /\ \A m \in 1..Len(in) :
               in[m].email = in[i].email =>
                   /\ in[m].confidence <= in[k].confidence
                   /\ (m < k => in[m].confidence < in[k].confidence)

\* C2: for every email of the input the output of _rank_contacts holds exactly
\* one candidate, the input observation of highest confidence with its own
\* source_url and contact_type, and among several of that confidence the first
\* in input order.
C2_DedupeKeepsFirstBest ==
    \A k \in RankCalls :
        LET in == RankInput(k)
            out == ret[k]
        IN  \A i \in 1..Len(in) :
                /\ Cardinality({ j \in 1..Len(out) : out[j].email = in[i].email }) = 1
                /\ \E j \in 1..Len(out) : out[j] = in[FirstBest(in, i)]

C2_Witness ==
    /\ RankCalls # {}
    /\ \E i, j \in 1..Len(RankInput(1)) :
           /\ i < j
           /\ RankInput(1)[i].email = RankInput(1)[j].email
           /\ RankInput(1)[i].confidence = 60
           /\ RankInput(1)[j].confidence = 90
           /\ RankInput(1)[i].source_url # RankInput(1)[j].source_url
           /\ ret[1] = << RankInput(1)[j] >>

\* C3: the output of _rank_contacts is sorted ascending by (type_priority,
\* -confidence): of two adjacent candidates the first has the lower priority
\* number, or the same type and a confidence at least as high; and every
\* booking candidate precedes every candidate of another type.
C3_SortedByTypeThenConfidence ==
    \A k \in RankCalls :
        LET out == ret[k]
        IN  /\ \A j \in 1..(Len(out) - 1) :
                   \/ type_priority(out[j].contact_type)
                          < type_priority(out[j + 1].contact_type)
                   \/ /\ out[j].contact_type = out[j + 1].contact_type
                      /\ out[j].confidence >= out[j + 1].confidence
            /\ \A i, j \in 1..Len(out) :
                   (out[i].contact_type = "booking"
                        /\ out[j].contact_type # "booking") => i < j

C3_Witness ==
    /\ RankCalls # {}
    /\ Len(ret[1]) = 3
    /\ RankInput(1)[1].contact_type = "general"
    /\ RankInput(1)[1].confidence = 95
    /\ RankInput(1)[2].contact_type = "host"
    /\ RankInput(1)[3].contact_type = "booking"
    /\ RankInput(1)[3].confidence = 50
    /\ ret[1][1] = RankInput(1)[3]
    /\ ret[1][3] = RankInput(1)[1]

BothRanked == call.fn = "_rank_contacts" /\ Len(ret) = 2

\* No email has two observations of equal confidence.
NoEqualConfidenceTwice ==
    LET in == RankInput(1)
    IN  \A i, j \in 1..Len(in) :
            (i # j /\ in[i].email = in[j].email)
                => in[i].confidence # in[j].confidence

\* No two emails have best observations of the same sort key.
NoSharedKey ==
    LET in == RankInput(1)
    IN  \A i, j \in 1..Len(in) :
            in[i].email # in[j].email =>
                LET a == in[FirstBest(in, i)]
                    b == in[FirstBest(in, j)]
                IN  \/ type_priority(a.contact_type) # type_priority(b.contact_type)
                    \/ a.confidence # b.confidence

\* C6 as stated: for two orderings of the same per-page candidate lists in
\* which no email has two observations of equal confidence, _rank_contacts
\* returns the same sequence and find_contacts the same (primary, backup).
C6_OrderIndependent ==
    (BothRanked /\ NoEqualConfidenceTwice) =>
        /\ ret[1] = ret[2]
        /\ TopTwo(ret[1]) = TopTwo(ret[2])

\* C6 amended: for two orderings of the same per-page candidate lists in which
\* no email has two observations of equal confidence and no two different
\* emails have highest-confidence observations of the same (type_priority,
\* confidence), _rank_contacts returns the same sequence and find_contacts the
\* same (primary, backup).
C6_OrderIndependentWithoutSharedKeys ==
    (BothRanked /\ NoEqualConfidenceTwice /\ NoSharedKey) =>
        /\ ret[1] = ret[2]
        /\ TopTwo(ret[1]) = TopTwo(ret[2])

C6_Witness ==
    /\ BothRanked
    /\ NoEqualConfidenceTwice
    /\ NoSharedKey
    /\ call.order = OtherOrder
    /\ Len(call.pages[1]) = 1
    /\ Len(call.pages[2]) = 2
    /\ call.pages[1][1].email = call.pages[2][2].email
    /\ call.pages[1][1].email # call.pages[2][1].email
    /\ Merged(call.pages, call.order) # Merged(call.pages, ScanOrder)
    /\ ret[1] = ret[2]
    /\ Len(ret[1]) = 2

-----------------------------------------------------------------------------
(* The web site: the environment of find_contacts *)

MaxLivePages == 2
MaxRuns == 2

PathIds == 1..Len(paths_to_check)

\* web[i] is "unknown" until the page of path i is first asked for in an open
\* session; from then on it is "down" or the document the page answers 200
\* with. At most MaxLivePages pages are live.
LivePages(w) == { i \in PathIds : w[i] \in Docs }

PageChoices(w, i) ==
    IF w[i] # "unknown" THEN {w[i]}
    ELSE {"down"} \cup (IF Cardinality(LivePages(w)) < MaxLivePages
                        THEN Docs ELSE {})

\* A live page answers 200 with its document; a page that is down fails in
\* one of these ways, not always the same.
Outcomes(page) ==
    IF page = "down" THEN { Raises, Answers(404, NotFoundDoc), BadBody }
    ELSE { Answers(200, page) }

Init ==
    /\ EngineIdle
    /\ session = "none"
    /\ pc = "idle"
    /\ website_url \in WebsiteArgs
    /\ web = [ i \in PathIds |-> "unknown" ]
    /\ pathIdx = 0
    /\ all_contacts = <<>>
    /\ fetched = <<>>
    /\ result = <<>>
    /\ history = <<>>
    /\ call = NoCall
    /\ ret = <<>>

\* __aenter__
AEnter ==
    /\ pc = "idle"
    /\ UNCHANGED engineVars
    /\ session = "none"
    /\ session' = "open"
    /\ UNCHANGED <<pc, website_url, web, pathIdx, all_contacts, fetched, result,
                   history, call, ret>>

\* __aexit__
AExit ==
    /\ pc = "idle"
    /\ UNCHANGED engineVars
    /\ session = "open"
    /\ session' = "closed"
    /\ UNCHANGED <<pc, website_url, web, pathIdx, all_contacts, fetched, result,
                   history, call, ret>>

\* find_contacts up to the first fetch
FindContactsBegin ==
    /\ pc = "idle"
    /\ UNCHANGED engineVars
    /\ Len(history) < MaxRuns
    /\ all_contacts' = <<>>
    /\ fetched' = <<>>
    /\ pathIdx' = 1
    /\ pc' = IF website_url # None /\ website_url # "" THEN "scan" ELSE "rank"
    /\ UNCHANGED <<session, website_url, web, result, history, call, ret>>

\* What the fetch of the page of path i leaves in the state
Fetched(url, outcome) ==
    [ url |-> url, ok |-> (outcome.kind = "status" /\ outcome.status = 200) ]

ScanPage_SkipVisited ==
    /\ pc = "scan"
    /\ UNCHANGED engineVars
    /\ LET url == PageUrl(website_url, paths_to_check[pathIdx])
           visited == \E h \in 1..Len(history) :
                          \E k \in 1..Len(history[h].fetched) :
                              history[h].fetched[k].url = url
       IN  \E page \in (IF session = "open" THEN PageChoices(web, pathIdx)
                        ELSE {"down"}) :
             \E answer \in Outcomes(page) :
               LET outcome == Fetch(session, answer)
                   scan == ScrapePageForEmails(url, outcome)
               IN  /\ web' = IF session = "open"
                             THEN [web EXCEPT ![pathIdx] = page] ELSE web
                   /\ fetched' = IF visited THEN fetched
                                 ELSE Append(fetched, Fetched(url, outcome))
                   /\ all_contacts' = IF visited THEN all_contacts
                                      ELSE all_contacts \o scan.contacts
                   /\ pc' = IF pathIdx = Len(paths_to_check) THEN "rank"
                            ELSE "scan"
    /\ pathIdx' = pathIdx + 1
    /\ UNCHANGED <<session, website_url, result, history, call, ret>>

\* One turn of the loop of _scan_website: the fetch of the next page and the
\* scan of what it returned
ScanPage ==
    /\ pc = "scan"
    /\ UNCHANGED engineVars
    /\ LET url == PageUrl(website_url, paths_to_check[pathIdx])
       IN  \E page \in (IF session = "open" THEN PageChoices(web, pathIdx)
                        ELSE {"down"}) :
             \E answer \in Outcomes(page) :
               LET outcome == Fetch(session, answer)
                   scan == ScrapePageForEmails(url, outcome)
               IN  /\ web' = IF session = "open"
                             THEN [web EXCEPT ![pathIdx] = page] ELSE web
                   /\ fetched' = Append(fetched, Fetched(url, outcome))
                   /\ all_contacts' = all_contacts \o scan.contacts
                   /\ pc' = IF scan.raised THEN "raised"
                            ELSE IF pathIdx = Len(paths_to_check) THEN "rank"
                            ELSE "scan"
    /\ pathIdx' = pathIdx + 1
    /\ UNCHANGED <<session, website_url, result, history, call, ret>>

\* find_contacts from the directories to the return
FindContactsReturn ==
    /\ pc = "rank"
    /\ UNCHANGED engineVars
    /\ LET pool == all_contacts \o CheckDirectories
           ranked == RankContacts(pool)
       IN  /\ result' = TopTwo(ranked)
           /\ history' = Append(history, [ session |-> session,
                                           web |-> web,
                                           fetched |-> fetched,
                                           pool |-> pool,
                                           result |-> TopTwo(ranked) ])
    /\ pc' = "idle"
    /\ UNCHANGED <<session, website_url, web, pathIdx, all_contacts, fetched,
                   call, ret>>

Next ==
    \/ AEnter
    \/ AExit
    \/ FindContactsBegin
    \/ ScanPage
    \/ FindContactsReturn

Spec == Init /\ [][Next]_vars

-----------------------------------------------------------------------------
(* C1, C4, C5, C9, C10 *)

Range(seq) == { seq[k] : k \in 1..Len(seq) }

\* The scans to look at: the one in progress or last made, and every one that
\* returned.
Scans ==
    { [fetched |-> fetched, pool |-> all_contacts] }
        \cup { [fetched |-> h.fetched, pool |-> h.pool] : h \in Range(history) }

\* C1: every ContactResult a scan produces has a non-empty source_url, the
\* URL of a page fetched during that scan whose fetch returned 200; no
\* candidate is produced for a page whose fetch failed or returned another
\* status.
C1_SourceIsAPageFetched200 ==
    \A scan \in Scans :
        /\ \A c \in Range(scan.pool) :
               /\ c.source_url # ""
               /\ \E f \in Range(scan.fetched) : f.url = c.source_url /\ f.ok
        /\ \A f \in Range(scan.fetched) :
               ~f.ok => \A c \in Range(scan.pool) : c.source_url # f.url

C1_Witness ==
    /\ pc = "idle"
    /\ Len(fetched) = Len(paths_to_check)
    /\ \E c, d \in Range(all_contacts) : c.source_url # d.source_url
    /\ \E f \in Range(fetched) : ~f.ok

\* C4: find_contacts returns the first and the second element of the ranked,
\* deduplicated pool, and each slot that is not None is, field for field, a
\* candidate a page scan of the same call produced.
C4_SlotsAreScannedCandidates ==
    \A h \in Range(history) :
        /\ h.result = << IF Len(RankContacts(h.pool)) > 0
                         THEN RankContacts(h.pool)[1] ELSE NoContact,
                         IF Len(RankContacts(h.pool)) > 1
                         THEN RankContacts(h.pool)[2] ELSE NoContact >>
        /\ \A k \in 1..2 :
               h.result[k] # NoContact => h.result[k] \in Range(h.pool)

C4_Witness ==
    /\ history # <<>>
    /\ Len(history[1].pool) > 2
    /\ history[1].result[1] # NoContact
    /\ \E i, j \in 1..Len(history[1].pool) :
           /\ i < j
           /\ history[1].pool[i].email = history[1].pool[j].email
           /\ history[1].result[2] = history[1].pool[j]

\* The candidates of the pool that were found at url, in order
FoundAt(pool, url) == SelectSeq(pool, LAMBDA c : c.source_url = url)

\* C5: a page whose fetch raises or returns another status than 200 adds no
\* candidate and the scan goes on with the remaining paths; no exception
\* leaves find_contacts, and the candidates of the pages that succeeded are
\* in the pool it ranks.
C5_PageFailuresAreAbsorbed ==
    /\ pc # "raised"
    /\ \A k \in 1..Len(fetched) :
           ~fetched[k].ok => (k < Len(paths_to_check) => pathIdx > k)
    /\ \A h \in Range(history) :
           website_url # None =>
               /\ Len(h.fetched) = Len(paths_to_check)
               /\ \A i \in 1..Len(paths_to_check) :
                      IF h.fetched[i].ok
                      THEN FoundAt(h.pool, h.fetched[i].url)
                               = Extracted(h.web[i], h.fetched[i].url)
                      ELSE FoundAt(h.pool, h.fetched[i].url) = <<>>

C5_Witness ==
    /\ history # <<>>
    /\ history[1].session = "open"
    /\ Len(history[1].fetched) = Len(paths_to_check)
    /\ ~history[1].fetched[1].ok
    /\ history[1].fetched[2].ok
    /\ ~history[1].fetched[3].ok
    /\ history[1].fetched[10].ok
    /\ history[1].result[1] # NoContact
    /\ history[1].result[1].source_url = history[1].fetched[10].url

\* Only the homepage answers 200, and with the document of the scenario.
OnlyHomepage(w) ==
    /\ w[Len(paths_to_check)] = HomeDoc
    /\ \A i \in 1..(Len(paths_to_check) - 1) : w[i] = "down"

\* C9: when only the homepage returns 200, with the mailto link of
\* press@show.com and the free text info@show.com, find_contacts returns
\* primary press@show.com (booking, 0.9) and backup info@show.com (general,
\* 0.6), both with the homepage URL as source_url.
C9_HomepageScenario ==
    \A h \in Range(history) :
        (h.session = "open" /\ website_url # None /\ OnlyHomepage(h.web)) =>
            h.result =
                << [ email |-> "press@show.com", source_url |-> "https://show.com",
                     contact_type |-> "booking", confidence |-> 90 ],
                   [ email |-> "info@show.com", source_url |-> "https://show.com",
                     contact_type |-> "general", confidence |-> 60 ] >>

C9_Witness ==
    /\ history # <<>>
    /\ history[1].session = "open"
    /\ website_url = "https://show.com/"
    /\ OnlyHomepage(history[1].web)
    /\ history[1].result[1].email = "press@show.com"
    /\ history[1].result[2].email = "info@show.com"

\* C10: two runs of find_contacts with the same website_url against the same
\* pages return the same (primary, backup), field for field: no earlier run
\* affects a later one.
C10_RunsAgree ==
    \A i, j \in 1..Len(history) :
        history[i].session = history[j].session
            => history[i].result = history[j].result

C10_Witness ==
    /\ Len(history) = 2
    /\ history[1].session = "open"
    /\ history[2].session = "open"
    /\ history[1].web = history[2].web
    /\ history[1].result[2] # NoContact
    /\ history[2].result = history[1].result

-----------------------------------------------------------------------------
(* C11 *)

\* The ten pages of https://show.com, in the order of the scan
ExpectedUrls ==
    << "https://show.com/contact", "https://show.com/contact-us",
       "https://show.com/be-a-guest", "https://show.com/guest",
       "https://show.com/podcast", "https://show.com/about",
       "https://show.com/media", "https://show.com/press",
       "https://show.com/booking", "https://show.com" >>

PageNo(url) == CHOOSE k \in 1..Len(ExpectedUrls) : ExpectedUrls[k] = url

InPageOrder(pool) ==
    \A i, j \in 1..Len(pool) :
        i < j => PageNo(pool[i].source_url) <= PageNo(pool[j].source_url)

\* C11: given a website URL, find_contacts fetches the ten pages /contact,
\* /contact-us, /be-a-guest, /guest, /podcast, /about, /media, /press,
\* /booking and the homepage of the site root without its trailing slash, in
\* that order and each once, whatever the earlier fetches did; the candidates
\* enter the pool in that page order.
C11_TenPagesInOrder ==
    /\ \A scan \in Scans :
           /\ Len(scan.fetched) <= Len(ExpectedUrls)
           /\ \A k \in 1..Len(scan.fetched) :
                  scan.fetched[k].url = ExpectedUrls[k]
           /\ InPageOrder(scan.pool)
    /\ \A h \in Range(history) :
           Len(h.fetched) = IF website_url = None THEN 0 ELSE Len(ExpectedUrls)

C11_Witness ==
    /\ website_url = "https://show.com/"
    /\ history # <<>>
    /\ ~history[1].fetched[1].ok
    /\ history[1].fetched[2].ok
    /\ ~history[1].fetched[9].ok
    /\ history[1].fetched[10].ok
    /\ \E c, d \in Range(history[1].pool) :
           c.source_url = ExpectedUrls[2] /\ d.source_url = ExpectedUrls[10]

-----------------------------------------------------------------------------
(* _scrape_page_for_emails called on its own *)

\* The pages scanned: a first link, a text and a second link
InitScrape ==
    /\ FinderIdle
    /\ EngineIdle
    /\ \E l1 \in
          { "",
            "<a href=\"mailto:press@show.com\">Press</a>",
            "<a href=\"mailto:Jane@Show.com?subject=Hi\">Jane</a>",
            "<a href=\"mailto: amy@me.com \">Amy</a>",
            "<a href=\"MAILTO:bob@show.com\">Bob</a>",
            "<a href=\"mailto:noreply@show.com\">No reply</a>" },
          t \in
          { "",
            " press@show.com",
            " PRESS@show.com or jane@show.com",
            " jane@show.com Jane@Show.com",
            " amy@me.com, bob@show.com.",
            " <img src=\"logo@2x.png\">" },
          l2 \in
          { "",
            "<a href=\"mailto:press@show.com\">Booking</a>",
            "<a href=\"https://x.com\">jane@show.com</a>" } :
          \E answer \in { Answers(200, l1 \o t \o l2), Answers(404, l1 \o t \o l2),
                          Raises, BadBody } :
              call = [fn |-> "_scrape_page_for_emails", url |-> "https://show.com/contact",
                      links |-> <<l1, l2>>, text |-> t, answer |-> answer]
    /\ ret = <<>>

CallScrapePageForEmails ==
    /\ call.fn = "_scrape_page_for_emails"
    /\ ret = <<>>
    /\ ret' = << ScrapePageForEmails(call.url, Fetch("open", call.answer)).contacts >>
    /\ UNCHANGED <<finderVars, engineVars, call>>

SpecScrape == InitScrape /\ [][CallScrapePageForEmails]_vars

-----------------------------------------------------------------------------
(* C12 *)

ScrapeReturned == call.fn = "_scrape_page_for_emails" /\ Len(ret) = 1

\* C12: within one page scan the free-text channel (confidence 0.6) adds a
\* candidate for an address only if the page has no candidate for that
\* lower-cased address yet: an address the mailto channel emitted is not
\* emitted again by the free-text channel.
C12_TextAddsNoSecondCandidate ==
    ScrapeReturned =>
        \A i, j \in 1..Len(ret[1]) :
            (i < j /\ ret[1][j].confidence = 60)
                => Lower(ret[1][i].email) # Lower(ret[1][j].email)

C12_Witness ==
    /\ ScrapeReturned
    /\ call.answer.status = 200
    /\ call.links[1] = "<a href=\"mailto:Jane@Show.com?subject=Hi\">Jane</a>"
    /\ call.text = " jane@show.com Jane@Show.com"
    /\ Len(ret[1]) = 1
    /\ ret[1][1].email = "jane@show.com"
    /\ ret[1][1].confidence = 70

-----------------------------------------------------------------------------
(* PodcastDiscoveryEngine._generate_dedupe_key *)

AlnumClass == Letters \cup Digits

\* str.lstrip of the characters urlsplit strips (C0 controls and the space)
RECURSIVE LStripSpace(_)
LStripSpace(s) ==
    IF s # "" /\ CharAt(s, 1) \in Whitespace
    THEN LStripSpace(SubSeq(s, 2, Len(s)))
    ELSE s

\* What urlsplit parses: the url without its leading whitespace and without
\* any tab, carriage return or newline
UrlCleaned(url) ==
    RemoveAll(RemoveAll(RemoveAll(LStripSpace(url), "\t"), "\r"), "\n")

\* urlsplit: what follows the scheme and its colon (the whole of s when s
\* starts with no scheme)
AfterScheme(s) ==
    LET i == IndexFrom(s, ":", 1)
    IN  IF i > 1 /\ CharAt(s, 1) \in Letters /\ AllIn(s, 1, i - 1, Letters \cup Digits \cup {"+", "-", "."})
        THEN SubSeq(s, i + 1, Len(s))
        ELSE s

\* the first place at or after i of s that holds one of '/', '?', '#'
\* (Len(s) + 1 when there is none)
RECURSIVE DelimFrom(_, _)
DelimFrom(s, i) ==
    IF i > Len(s) \/ CharAt(s, i) \in {"/", "?", "#"} THEN i
    ELSE DelimFrom(s, i + 1)

\* urlparse(url).netloc
Netloc(url) ==
    LET rest == AfterScheme(UrlCleaned(url))
    IN  IF Len(rest) >= 2 /\ SubSeq(rest, 1, 2) = "//"
        THEN SubSeq(rest, 3, DelimFrom(rest, 3) - 1)
        ELSE ""

\* re.search(prefix + '(' + class + '+)', s): the group, "" when nothing
\* matches
RECURSIVE SearchGroup(_, _, _, _)
SearchGroup(s, prefix, class, i) ==
    LET p == IndexFrom(s, prefix, i)
        from == p + Len(prefix)
    IN  IF p = 0 THEN ""
        ELSE IF from <= Len(s) /\ CharAt(s, from) \in class
        THEN SubSeq(s, from, RunEnd(s, from, class))
        ELSE SearchGroup(s, prefix, class, p + 1)

\* re.search(r'/id(\d+)', url)
apple_match(url) == SearchGroup(url, "/id", Digits, 1)

\* re.search(r'/show/([a-zA-Z0-9]+)', url)
spotify_match(url) == SearchGroup(url, "/show/", AlnumClass, 1)

\* re.sub(r'[^a-z0-9]', '', s)
RECURSIVE KeepLowerAlnum(_)
KeepLowerAlnum(s) ==
    IF s = "" THEN ""
    ELSE (IF CharAt(s, 1) \in CharsOf(LowerAlpha) \cup Digits
          THEN CharAt(s, 1) ELSE "")
         \o KeepLowerAlnum(SubSeq(s, 2, Len(s)))

normalized_name(show_name) == KeepLowerAlnum(Lower(show_name))

\* hashlib.md5(s.encode()).hexdigest()[:12] of the strings hashed here
Md5Hex12(s) ==
    LET digests ==
        { <<"", "d41d8cd98f00">>,
          <<"MYSHOW", "4c5701363acc">>,
          <<"My Show", "3ed0d9ac368d">>,
          <<"My Show 2", "4d363e840035">>,
          <<"The Daily", "e9f31ea378dc">>,
          <<"feed.xml", "8f1728e886ce">>,
          <<"feed.xmlMYSHOW", "f948ac931a5e">>,
          <<"feed.xmlMy Show", "b7effa5e9c5e">>,
          <<"feed.xmlMy Show 2", "840889aa36db">>,
          <<"feed.xmlThe Daily", "ba9246588888">>,
          <<"feed.xmlmy-show!", "5166ee60096d">>,
          <<"https:/show.com/feed", "f99212377423">>,
          <<"https:/show.com/feedMYSHOW", "706bff285737">>,
          <<"https:/show.com/feedMy Show", "0ee5659f3285">>,
          <<"https:/show.com/feedMy Show 2", "ffcd444fa0f7">>,
          <<"https:/show.com/feedThe Daily", "d652d5cf9a09">>,
          <<"https:/show.com/feedmy-show!", "972539891f6d">>,
          <<"mailto:host@show.com", "4c5cc450d1da">>,
          <<"mailto:host@show.comMYSHOW", "57ef1092ec8a">>,
          <<"mailto:host@show.comMy Show", "966fb94bb226">>,
          <<"mailto:host@show.comMy Show 2", "01c4e58cadce">>,
          <<"mailto:host@show.comThe Daily", "36361101d2fb">>,
          <<"mailto:host@show.commy-show!", "4a855b1beebb">>,
          <<"my-show!", "09ec964645e2">>,
          <<"www.show.com/feed", "ed3009236e21">>,
          <<"www.show.com/feedMYSHOW", "2731c6014e3e">>,
          <<"www.show.com/feedMy Show", "d085f7363d08">>,
          <<"www.show.com/feedMy Show 2", "8ba7cdc6624a">>,
          <<"www.show.com/feedThe Daily", "6ad295403abf">>,
          <<"www.show.com/feedmy-show!", "a706ad477cb9">> }
    IN  (CHOOSE p \in digests : p[1] = s)[2]

GenerateDedupeKey_SpotifyFirst(url, show_name) ==
    IF spotify_match(url) # "" THEN "spotify:" \o spotify_match(url)
    ELSE IF apple_match(url) # "" THEN "apple:" \o apple_match(url)
    ELSE IF Netloc(url) # ""
    THEN "web:" \o Netloc(url) \o "|" \o normalized_name(show_name)
    ELSE "hash:" \o Md5Hex12(url \o show_name)

GenerateDedupeKey(url, show_name) ==
    IF apple_match(url) # "" THEN "apple:" \o apple_match(url)
    ELSE IF spotify_match(url) # "" THEN "spotify:" \o spotify_match(url)
    ELSE IF Netloc(url) # ""
    THEN "web:" \o Netloc(url) \o "|" \o normalized_name(show_name)
    ELSE "hash:" \o Md5Hex12(url \o show_name)

\* The arguments _generate_dedupe_key is called with
KeyArgs ==
    [ url |->
    { "https://podcasts.apple.com/us/podcast/my-show/id123456?uo=4",
          "https://podcasts.apple.com/us/podcast/other/id123456",
          "https://open.spotify.com/show/4rOoJ6Egrf8K2I?si=abc",
          "https://open.spotify.com/show/",
          "https://show.com/id42/show/abc",
          "https://show.com/show/abc/id42",
          "https://show.com/idx",
          "https://show.com/feed",
          "https://show.com/rss",
          "https://show.com/feed?ref=/id77",
          "https://show.com/feed#/show/xyz",
          "https://id5.fm/feed",
          "https://Show.com:8080/feed",
          "//cdn.show.com/feed",
          "www.show.com/feed",
          "",
          "feed.xml",
          "/show/abc",
          "/id7",
          "mailto:host@show.com",
          " https://show.com/feed",
          "https://sh\tow.com/feed",
          "https:/show.com/feed",
          "https://show.com",
          "https://show.com?x=1" },
      show_name |-> { "My Show", "my-show!", "MYSHOW", "My Show 2", "", "The Daily" } ]

InitKey ==
    /\ FinderIdle
    /\ EngineIdle
    /\ \E u \in KeyArgs.url, n \in KeyArgs.show_name :
          call = [fn |-> "_generate_dedupe_key", url |-> u, show_name |-> n]
    /\ ret = <<>>

CallGenerateDedupeKey ==
    /\ call.fn = "_generate_dedupe_key"
    /\ ret = <<>>
    /\ ret' = << GenerateDedupeKey(call.url, call.show_name) >>
    /\ UNCHANGED <<finderVars, engineVars, call>>

SpecKey == InitKey /\ [][CallGenerateDedupeKey]_vars

-----------------------------------------------------------------------------
(* C17 *)

KeyReturned == call.fn = "_generate_dedupe_key" /\ Len(ret) = 1

\* urlparse(url).path: what follows the network location, up to the query
\* or the fragment
UrlPath(url) ==
    LET rest == AfterScheme(UrlCleaned(url))
        tail == IF Len(rest) >= 2 /\ SubSeq(rest, 1, 2) = "//"
                THEN SubSeq(rest, DelimFrom(rest, 3), Len(rest))
                ELSE rest
        cut == { i \in 1..Len(tail) : CharAt(tail, i) \in {"?", "#"} }
    IN  IF cut = {} THEN tail
        ELSE SubSeq(tail, 1, (CHOOSE i \in cut : \A j \in cut : i <= j) - 1)

\* The places of s where prefix stands right before a character of class
IdPlaces(s, prefix, class) ==
    { p \in 1..Len(s) :
        /\ p + Len(prefix) <= Len(s)
        /\ SubSeq(s, p, p + Len(prefix) - 1) = prefix
        /\ CharAt(s, p + Len(prefix)) \in class }

\* The ID at the first such place: every character of class that follows
FirstId(s, prefix, class) ==
    LET places == IdPlaces(s, prefix, class)
        p == CHOOSE x \in places : \A y \in places : x <= y
        from == p + Len(prefix)
        e == CHOOSE x \in from..Len(s) :
                 /\ AllIn(s, from, x, class)
                 /\ (x = Len(s) \/ CharAt(s, x + 1) \notin class)
    IN  SubSeq(s, from, e)

\* the show name in lower case, without what is not a letter or a digit
NameAsClaimed(name) ==
    Join(SelectSeq([ i \in 1..Len(name) |-> LowerChar(CharAt(name, i)) ],
                   LAMBDA c : c \in CharsOf(LowerAlpha) \cup Digits))

\* The key by the four rules, the two ID rules looking at the text where
KeyByRules(where, url, name) ==
    IF IdPlaces(where, "/id", Digits) # {}
    THEN "apple:" \o FirstId(where, "/id", Digits)
    ELSE IF IdPlaces(where, "/show/", AlnumClass) # {}
    THEN "spotify:" \o FirstId(where, "/show/", AlnumClass)
    ELSE IF Netloc(url) # ""
    THEN "web:" \o Netloc(url) \o "|" \o NameAsClaimed(name)
    ELSE "hash:" \o Md5Hex12(url \o name)

\* The key of the call's url does not depend on the show name
NameIgnored == \A n \in KeyArgs.show_name : GenerateDedupeKey(call.url, n) = ret[1]

IdRuleApplies(where) ==
    \/ IdPlaces(where, "/id", Digits) # {}
    \/ IdPlaces(where, "/show/", AlnumClass) # {}

-----------------------------------------------------------------------------
(* PodcastDiscoveryEngine: the results and the three search services *)

\* any(term in content for term in terms)
AnyTermIn(terms, content) ==
    \E k \in 1..Len(terms) : Contains(content, terms[k])

DetectRiskSignals_FirstOnly(title, description) ==
    LET content == Lower(title \o " " \o description)
    IN  IF AnyTermIn(<< "democrat", "republican", "trump", "biden", "maga",
                        "liberal", "conservative", "political" >>, content)
        THEN <<"POTENTIAL_POLITICS">>
        ELSE IF AnyTermIn(<< "explicit", "adult", "nsfw", "18+" >>, content)
        THEN <<"POTENTIAL_EXPLICIT">>
        ELSE IF AnyTermIn(<< "sponsor a slot", "guest sponsorship",
                             "paid guest", "buy a spot",
                             "sponsor an episode" >>, content)
        THEN <<"POTENTIAL_PAID_GUEST">>
        ELSE IF AnyTermIn(<< "solo show", "no interviews", "monologue",
                             "solo podcast" >>, content)
        THEN <<"POTENTIAL_NO_GUESTS">>
        ELSE <<>>

DetectRiskSignals(title, description) ==
    LET content == Lower(title \o " " \o description)
        political_terms ==
            << "democrat", "republican", "trump", "biden", "maga", "liberal",
               "conservative", "political" >>
        explicit_terms == << "explicit", "adult", "nsfw", "18+" >>
        paid_terms ==
            << "sponsor a slot", "guest sponsorship", "paid guest",
               "buy a spot", "sponsor an episode" >>
        no_guest_terms ==
            << "solo show", "no interviews", "monologue", "solo podcast" >>
    IN  (IF AnyTermIn(political_terms, content)
         THEN <<"POTENTIAL_POLITICS">> ELSE <<>>)
        \o (IF AnyTermIn(explicit_terms, content)
            THEN <<"POTENTIAL_EXPLICIT">> ELSE <<>>)
        \o (IF AnyTermIn(paid_terms, content)
            THEN <<"POTENTIAL_PAID_GUEST">> ELSE <<>>)
        \o (IF AnyTermIn(no_guest_terms, content)
            THEN <<"POTENTIAL_NO_GUESTS">> ELSE <<>>)

\* dict.get(key, default) of an item whose absent keys are held as None
Get(item, key, default) == IF item[key] = None THEN default ELSE item[key]

\* A PodcastDiscoveryResult as the three searches construct it
PodcastDiscoveryResult(show_name, host_name, primary_platform_url, website, apple_podcast_url, show_description, recent_episode_titles, recent_guests, risk_signals, dedupe_key) ==
    [ show_name |-> show_name,
      host_name |-> host_name,
      primary_platform_url |-> primary_platform_url,
      website_url |-> website,
      apple_podcast_url |-> apple_podcast_url,
      spotify_url |-> None,
      show_description |-> show_description,
      recent_episode_titles |-> recent_episode_titles,
      recent_guests |-> recent_guests,
      primary_email |-> None,
      primary_email_source_url |-> None,
      backup_email |-> None,
      backup_email_source_url |-> None,
      discovery_source |-> "",
      risk_signals |-> risk_signals,
      dedupe_key |-> dedupe_key ]

\* _search_apple_podcasts: the result built from one item of data["results"]
AppleResult(item) ==
    PodcastDiscoveryResult(
        Get(item, "collectionName", ""), item.artistName,
        Get(item, "collectionViewUrl", ""), None, item.collectionViewUrl,
        Get(item, "description", ""), <<>>, <<>>,
        DetectRiskSignals(Get(item, "collectionName", ""),
                          Get(item, "description", "")),
        GenerateDedupeKey(Get(item, "collectionViewUrl", ""),
                          Get(item, "collectionName", "")))

\* _search_podcast_index: the result built from one item of data["feeds"]
IndexResult(item) ==
    PodcastDiscoveryResult(
        Get(item, "title", ""), item.author, Get(item, "url", ""), item.link,
        None, Get(item, "description", ""), <<>>, <<>>,
        DetectRiskSignals(Get(item, "title", ""), Get(item, "description", "")),
        GenerateDedupeKey(Get(item, "url", ""), Get(item, "title", "")))

\* _search_listen_notes_guest: the result built from the first episode item of
\* a podcast
ListenNotesResult(item, guest_name) ==
    PodcastDiscoveryResult(
        Get(item.podcast, "title_original", ""),
        item.podcast.publisher_original,
        Get(item.podcast, "listennotes_url", ""), item.podcast.website, None,
        Get(item.podcast, "description_original", ""),
        << Get(item, "title_original", "") >>, << guest_name >>,
        DetectRiskSignals(Get(item.podcast, "title_original", ""),
                          Get(item.podcast, "description_original", "")),
        "listennotes:" \o item.podcast.id)

\* list(seen_podcasts.values()): one result per podcast id, in the order the
\* ids were first seen; an item without a podcast id is passed over
RECURSIVE SeenPodcasts(_, _, _)
SeenPodcasts(items, guest_name, seen) ==
    IF items = <<>> THEN seen
    ELSE LET podcast_id == items[1].podcast.id
         IN  SeenPodcasts(
                 Tail(items), guest_name,
                 IF podcast_id # None
                    /\ ~\E k \in 1..Len(seen) :
                           seen[k].dedupe_key = "listennotes:" \o podcast_id
                 THEN Append(seen, ListenNotesResult(items[1], guest_name))
                 ELSE seen)

\* seq[:n]
Take(seq, n) == SubSeq(seq, 1, IF n < Len(seq) THEN n ELSE Len(seq))

\* What session.get(url, params=...) of a search service does when it answers:
\* a status and the items of the JSON body. Raises is a request that raises,
\* BadBody a body that resp.json() cannot parse.
ApiAnswers(status, items) == [kind |-> "status", status |-> status, items |-> items]

(* What the services and the pages answer *)

MaxScopes == 2
MaxSitePages == 1

\* What the search services know and what the pages hold
Catalog ==
    LET MyShowPodcast ==
            [ id |-> "ln1", title_original |-> "My Show",
              publisher_original |-> "Bob",
              listennotes_url |-> "https://www.listennotes.com/c/ln1/",
              website |-> "https://show.com", description_original |-> "" ]
        DailyPodcast ==
            [ id |-> "ln2", title_original |-> "The Daily",
              publisher_original |-> None,
              listennotes_url |-> "https://www.listennotes.com/c/ln2/",
              website |-> None, description_original |-> "A monologue" ]
        NoPodcast ==
            [ id |-> None, title_original |-> None,
              publisher_original |-> None, listennotes_url |-> None,
              website |-> None, description_original |-> None ]
    IN  [ \* items of data["results"] of Apple
          PoliticsOnApple |->
              [ collectionName |-> "Politics Daily", artistName |-> "Ann",
                collectionViewUrl |->
                    "https://podcasts.apple.com/us/podcast/politics-daily/id123?uo=4",
                description |-> "Trump, Biden and a paid guest. Explicit." ],
          MyShowOnApple |->
              [ collectionName |-> "My Show", artistName |-> "Bob",
                collectionViewUrl |-> "https://feeds.show.com/my-show",
                description |-> None ],
          DailyOnApple |->
              [ collectionName |-> "The Daily", artistName |-> None,
                collectionViewUrl |-> None, description |-> "A solo show" ],
          \* items of data["feeds"] of Podcast Index
          MyShowFeed |->
              [ title |-> "My Show!", author |-> "Bob",
                url |-> "https://www.listennotes.com/podcasts/my-show",
                link |-> "https://show.com", description |-> "" ],
          MyShowRss |->
              [ title |-> "MYSHOW", author |-> None,
                url |-> "https://feeds.show.com/rss",
                link |-> "https://show.com/", description |-> "Interviews" ],
          PoliticsFeed |->
              [ title |-> "Politics Daily", author |-> "Ann",
                url |-> "https://podcasts.apple.com/podcast/id123",
                link |-> None, description |-> "Political talk" ],
          PoliticsOtherFeed |->
              [ title |-> "Politics Daily", author |-> "Ann",
                url |-> "https://podcasts.apple.com/us/podcast/politics-daily/id456",
                link |-> "", description |-> None ],
          \* items of data["results"] of Listen Notes: episodes
          GaryOnMyShow |->
              [ title_original |-> "Gary on My Show", podcast |-> MyShowPodcast ],
          GaryAgain |->
              [ title_original |-> "Gary again", podcast |-> MyShowPodcast ],
          GaryTalks |->
              [ title_original |-> "Gary talks", podcast |-> DailyPodcast ],
          Trailer |-> [ title_original |-> None, podcast |-> NoPodcast ],
          \* the Apple page of a podcast
          ApplePage |->
              "<a class=\"link\" href=\"https://podcasts.apple.com/us/genre\">More</a><a class=\"link external\" href=\"https://show.com/\">Website</a>",
          ApplePageNoSite |->
              "<a class=\"nav\" href=\"https://other.com\">Other</a>",
          \* pages of the website of a podcast
          BookingDoc |->
              "<a href=\"mailto:booking@show.com\">Book</a> or team@show.com",
          TwiceDoc |->
              "<a href=\"mailto:Booking@show.com?subject=Hi\">Book</a> <a href=\"mailto:Booking@show.com\">Again</a> info@show.com",
          EmptyMailtoDoc |-> "<a href=\"mailto:\">Mail</a> press@show.com",
          MissingDoc |-> "<p>Not found. Mail admin@show.com</p>" ]

\* What each search service may answer to the one request it gets (ln: Listen
\* Notes, pi: Podcast Index, apple: Apple), and what the fetch of the Apple
\* page of a podcast may do
WorldAnswers ==
    [ ln |->
        { ApiAnswers(200, <<Catalog.GaryOnMyShow, Catalog.GaryAgain>>),
          ApiAnswers(200, <<Catalog.GaryOnMyShow, Catalog.GaryTalks>>),
          ApiAnswers(200, <<Catalog.Trailer, Catalog.GaryTalks>>),
          ApiAnswers(500, <<>>),
          Raises },
      pi |->
        { ApiAnswers(200, <<Catalog.MyShowFeed>>),
          ApiAnswers(200, <<Catalog.MyShowRss, Catalog.PoliticsFeed>>),
          ApiAnswers(200, <<Catalog.PoliticsFeed, Catalog.PoliticsOtherFeed>>),
          ApiAnswers(200, <<>>),
          BadBody,
          Raises },
      apple |->
        { ApiAnswers(200, <<Catalog.PoliticsOnApple, Catalog.MyShowOnApple>>),
          ApiAnswers(200, <<Catalog.MyShowOnApple, Catalog.DailyOnApple>>),
          ApiAnswers(200, <<Catalog.DailyOnApple, Catalog.PoliticsOnApple>>),
          ApiAnswers(200, <<>>),
          ApiAnswers(500, <<>>),
          Raises },
      page |->
        { Answers(200, Catalog.ApplePage), Answers(200, Catalog.ApplePageNoSite),
          Answers(404, Catalog.MissingDoc), Raises } ]

\* How the fetch of the k-th url of a site fails when its page is down
Down(k) ==
    CASE k % 3 = 1 -> Answers(404, Catalog.MissingDoc)
      [] k % 3 = 2 -> Raises
      [] OTHER -> BadBody

\* What the fetches of the six urls of urls_to_check may do: at most
\* MaxSitePages of them answer 200
SiteAnswers ==
    { [ k \in 1..6 |-> IF k \in DOMAIN pages
                       THEN Answers(200, pages[k]) ELSE Down(k) ] :
        pages \in UNION { [live -> { Catalog.BookingDoc, Catalog.TwiceDoc,
                                     Catalog.EmptyMailtoDoc }] :
                           live \in { l \in SUBSET (1..6) :
                                        Cardinality(l) <= MaxSitePages } } }

\* The max_results arguments of the searches
MaxResultsArgs == {1, 3}

(* The three searches, each a function of what its request does *)

SearchApplePodcasts_NoExcept ==
    [ answer \in WorldAnswers.apple |->
        [ raised |-> answer.kind \in {"raise", "badbody"},
          results |-> IF answer.kind = "status" /\ answer.status = 200
                      THEN [ k \in 1..Len(answer.items) |->
                               AppleResult(answer.items[k]) ]
                      ELSE <<>> ] ]

\* _search_apple_podcasts: results.append(podcast) for every item, in order;
\* [] when the status is not 200 or an exception was caught
SearchApplePodcasts ==
    [ answer \in WorldAnswers.apple |->
        [ raised |-> FALSE,
          results |-> IF answer.kind = "status" /\ answer.status = 200
                      THEN [ k \in 1..Len(answer.items) |->
                               AppleResult(answer.items[k]) ]
                      ELSE <<>> ] ]

\* _search_podcast_index
SearchPodcastIndex ==
    [ answer \in WorldAnswers.pi |->
        [ raised |-> FALSE,
          results |-> IF answer.kind = "status" /\ answer.status = 200
                      THEN [ k \in 1..Len(answer.items) |->
                               IndexResult(answer.items[k]) ]
                      ELSE <<>> ] ]

\* _search_listen_notes_guest
SearchListenNotesGuest ==
    [ answer \in WorldAnswers.ln |->
        [ guest_name \in {"Gary"} |->
            [ limit \in MaxResultsArgs |->
                [ raised |-> FALSE,
                  results |->
                      IF answer.kind = "status" /\ answer.status = 200
                      THEN Take(SeenPodcasts(answer.items, guest_name, <<>>),
                                limit)
                      ELSE <<>> ] ] ] ]

UniqueResults_KeepsAll(results, source, unique_results) ==
    unique_results
    \o [ k \in 1..Len(results) |->
           [results[k] EXCEPT !.discovery_source = source] ]

\* The deduplication loop of the two searches: the first result of every
\* dedupe_key, stamped with the discovery source
RECURSIVE UniqueResults(_, _, _)
UniqueResults(results, source, unique_results) ==
    IF results = <<>> THEN unique_results
    ELSE UniqueResults(
             Tail(results), source,
             IF \E k \in 1..Len(unique_results) :
                    unique_results[k].dedupe_key = results[1].dedupe_key
             THEN unique_results
             ELSE Append(unique_results,
                         [results[1] EXCEPT !.discovery_source = source]))

-----------------------------------------------------------------------------
(* PodcastDiscoveryEngine: the enrichment *)

contact_skip_patterns ==
    << "noreply", "no-reply", "donotreply", "info@", "support@", "help@",
       "privacy@", "legal@", "abuse@", ".png", ".jpg", ".gif" >>

IsValidContactEmail_CaseSensitive(email) ==
    ~\E k \in 1..Len(contact_skip_patterns) :
        Contains(email, contact_skip_patterns[k])

IsValidContactEmail(email) ==
    ~\E k \in 1..Len(contact_skip_patterns) :
        Contains(Lower(email), contact_skip_patterns[k])

\* The end of the match of
\*   \b[A-Za-z0-9._%+-]+@[A-Za-z0-9.-]+\.[A-Z|a-z]{2,}\b
\* that starts at i (0 when there is none): of the splits of the text into
\* local part, domain and top-level domain, the one the backtracking finds
\* first, as MatchEnd finds it for the pattern of the finder
LongMatchEnd(s, i) ==
    LET at == RunEnd(s, i, LocalClass) + 1
        m == RunEnd(s, at + 1, DomainClass)
        splits ==
            IF ~(WordBoundary(s, i) /\ i <= Len(s) /\ CharAt(s, i) \in LocalClass)
            THEN {}
            ELSE IF at > Len(s) \/ CharAt(s, at) # "@" THEN {}
            ELSE { kt \in ((at + 1)..(m - 1)) \X (2..Len(s)) :
                     /\ CharAt(s, kt[1] + 1) = "."
                     /\ kt[1] + 1 + kt[2] <= Len(s)
                     /\ AllIn(s, kt[1] + 2, kt[1] + 1 + kt[2], TextTldClass)
                     /\ WordBoundary(s, kt[1] + 2 + kt[2]) }
    IN  IF splits = {} THEN 0
        ELSE LET best == CHOOSE kt \in splits :
                             \A o \in splits :
                                 \/ o[1] < kt[1]
                                 \/ (o[1] = kt[1] /\ o[2] <= kt[2])
             IN  best[1] + 1 + best[2]

\* email_pattern.findall(html) of _find_emails: the matches from place i on,
\* each starting at the first place after the one before it where one starts
RECURSIVE LongFindAll(_, _)
LongFindAll(s, i) ==
    LET starts == { j \in i..Len(s) : LongMatchEnd(s, j) # 0 }
    IN  IF starts = {} THEN <<>>
        ELSE LET j == CHOOSE j \in starts : \A o \in starts : j <= o
                 e == LongMatchEnd(s, j)
             IN  <<SubSeq(s, j, e)>> \o LongFindAll(s, e + 1)

\* href=re.compile(r'^mailto:')
StartsWith(s, prefix) ==
    Len(s) >= Len(prefix) /\ SubSeq(s, 1, Len(prefix)) = prefix

\* _find_emails: the loop over mailto_links, emails being the list so far
RECURSIVE MailtoEmails(_, _, _)
MailtoEmails(anchors, url, emails) ==
    IF anchors = <<>> THEN emails
    ELSE LET email == BeforeFirst(RemoveAll(anchors[1].href, "mailto:"), "?")
         IN  MailtoEmails(
                 Tail(anchors), url,
                 IF StartsWith(anchors[1].href, "mailto:")
                    /\ IsValidContactEmail(email)
                 THEN Append(emails, [email |-> email, source |-> url])
                 ELSE emails)

\* _find_emails: the loop over found
RECURSIVE FoundEmails(_, _, _)
FoundEmails(tokens, url, emails) ==
    IF tokens = <<>> THEN emails
    ELSE FoundEmails(
             Tail(tokens), url,
             IF /\ IsValidContactEmail(tokens[1])
                /\ ~\E k \in 1..Len(emails) : emails[k].email = tokens[1]
             THEN Append(emails, [email |-> tokens[1], source |-> url])
             ELSE emails)

\* urls_to_check
UrlsToCheck(site) ==
    << site,
       RStripSlash(site) \o "/contact",
       RStripSlash(site) \o "/contact-us",
       RStripSlash(site) \o "/about",
       RStripSlash(site) \o "/guest",
       RStripSlash(site) \o "/be-a-guest" >>

RECURSIVE EmailsOfPages_NoStatusCheck(_, _, _, _)
EmailsOfPages_NoStatusCheck(site, answers, k, emails) ==
    IF k > Len(UrlsToCheck(site)) THEN emails
    ELSE EmailsOfPages_NoStatusCheck(
             site, answers, k + 1,
             IF answers[k].kind = "status"
             THEN FoundEmails(
                      LongFindAll(answers[k].html, 1), UrlsToCheck(site)[k],
                      MailtoEmails(Anchors(answers[k].html, 1),
                                   UrlsToCheck(site)[k], emails))
             ELSE emails)

\* _find_emails: the loop over urls_to_check, answers[k] being what the fetch
\* of the k-th url does; a fetch that raises or a body that cannot be read
\* goes on with the next url; a page that answers 200 adds the emails of its
\* mailto links and then those of its text
RECURSIVE EmailsOfPages(_, _, _, _)
EmailsOfPages(site, answers, k, emails) ==
    IF k > Len(UrlsToCheck(site)) THEN emails
    ELSE EmailsOfPages(
             site, answers, k + 1,
             IF answers[k].kind = "status" /\ answers[k].status = 200
             THEN FoundEmails(
                      LongFindAll(answers[k].html, 1), UrlsToCheck(site)[k],
                      MailtoEmails(Anchors(answers[k].html, 1),
                                   UrlsToCheck(site)[k], emails))
             ELSE emails)

\* _find_emails, a function of the website and of what the fetches of its
\* six urls do
FindEmails ==
    [ site \in {"https://show.com", "https://show.com/"} |->
        [ answers \in SiteAnswers \cup { [ k \in 1..6 |-> Raises ] } |->
            [ raised |-> FALSE,
              emails |-> Take(EmailsOfPages(site, answers, 1, <<>>), 2) ] ] ]

\* BeautifulSoup(html, 'html.parser'): the anchors
\* <a class="..." href="...">text</a> of the document, in document order
RECURSIVE ClassAnchors(_, _)
ClassAnchors(html, i) ==
    LET LinkOpen == "<a class=\""
        LinkHref == "\" href=\""
        open == IndexFrom(html, LinkOpen, i)
        classFrom == open + Len(LinkOpen)
        mid == IndexFrom(html, LinkHref, classFrom)
        hrefFrom == mid + Len(LinkHref)
        quote == IndexFrom(html, "\"", hrefFrom)
        close == IndexFrom(html, AnchorClose, quote + 2)
    IN  IF open = 0 \/ mid = 0 \/ quote = 0 \/ close = 0 THEN <<>>
        ELSE << [ class |-> SubSeq(html, classFrom, mid - 1),
                  href |-> SubSeq(html, hrefFrom, quote - 1) ] >>
             \o ClassAnchors(html, close + Len(AnchorClose))

\* soup.find('a', class_='link', href=re.compile(r'^https?://(?!podcasts\.apple)')):
\* the href of the first anchor one of whose classes is link and whose href
\* matches, None when there is none
WebsiteLink(html) ==
    LET HasClassLink(class) ==
            \E i \in 1..Len(class) :
                /\ i + 3 <= Len(class)
                /\ SubSeq(class, i, i + 3) = "link"
                /\ (i = 1 \/ CharAt(class, i - 1) \in Whitespace)
                /\ (i + 3 = Len(class) \/ CharAt(class, i + 4) \in Whitespace)
        IsWebsiteHref(href) ==
            \E scheme \in {"http://", "https://"} :
                /\ StartsWith(href, scheme)
                /\ ~StartsWith(SubSeq(href, Len(scheme) + 1, Len(href)),
                               "podcasts.apple")
        links == SelectSeq(ClassAnchors(html, 1),
                           LAMBDA a : HasClassLink(a.class)
                                       /\ IsWebsiteHref(a.href))
    IN  IF links = <<>> THEN None ELSE links[1].href

\* if x: of an Optional[str]
Truthy(x) == x # None /\ x # ""

\* _find_website, a function of podcast.apple_podcast_url and of what the
\* fetch of the Apple page does
FindWebsite ==
    [ apple_podcast_url \in { Catalog.PoliticsOnApple.collectionViewUrl,
                              Catalog.MyShowOnApple.collectionViewUrl,
                              Catalog.DailyOnApple.collectionViewUrl, None } |->
        [ answer \in WorldAnswers.page |->
            [ raised |-> FALSE,
              website |-> IF /\ Truthy(apple_podcast_url)
                             /\ answer.kind = "status" /\ answer.status = 200
                          THEN WebsiteLink(answer.html)
                          ELSE None ] ] ]

EnrichFields_DropsBackupSource(podcast, website, emails) ==
    [ podcast EXCEPT
        !.website_url = website,
        !.primary_email = IF emails # <<>> THEN emails[1].email ELSE @,
        !.primary_email_source_url =
            IF emails # <<>> THEN emails[1].source ELSE @,
        !.backup_email = IF Len(emails) > 1 THEN emails[2].email ELSE @ ]

EnrichFields_StampsSource(podcast, website, emails) ==
    [ podcast EXCEPT
        !.website_url = website,
        !.discovery_source = "enriched",
        !.primary_email = IF emails # <<>> THEN emails[1].email ELSE @,
        !.primary_email_source_url =
            IF emails # <<>> THEN emails[1].source ELSE @,
        !.backup_email = IF Len(emails) > 1 THEN emails[2].email ELSE @,
        !.backup_email_source_url =
            IF Len(emails) > 1 THEN emails[2].source ELSE @ ]

\* enrich_podcast: the assignments to the podcast, website being what
\* website_url is after the first step and emails what _find_emails returned
\* (empty when it was not called)
EnrichFields(podcast, website, emails) ==
    [ podcast EXCEPT
        !.website_url = website,
        !.primary_email = IF emails # <<>> THEN emails[1].email ELSE @,
        !.primary_email_source_url =
            IF emails # <<>> THEN emails[1].source ELSE @,
        !.backup_email = IF Len(emails) > 1 THEN emails[2].email ELSE @,
        !.backup_email_source_url =
            IF Len(emails) > 1 THEN emails[2].source ELSE @ ]

-----------------------------------------------------------------------------
(* The discovery engine and its worlds *)

\* The worlds the operations are exercised in: what every service and page
\* answers. search: the answers of two of the three services vary; enrich:
\* the Apple page or the six pages of the website vary; finder: the pages of
\* the ten paths of the contact finder vary, at most MaxSitePages of them
\* answering 200.
Worlds ==
    LET World(ln, pi, apple, page, site) ==
            [ln |-> ln, pi |-> pi, apple |-> apple, page |-> page, site |-> site]
        BookingSite ==
            [ k \in 1..6 |-> IF k = 2 THEN Answers(200, Catalog.BookingDoc)
                             ELSE Down(k) ]
        gary == ApiAnswers(200, <<Catalog.GaryOnMyShow, Catalog.GaryTalks>>)
        feeds == ApiAnswers(200, <<Catalog.MyShowRss, Catalog.PoliticsFeed>>)
        shows == ApiAnswers(200, <<Catalog.PoliticsOnApple, Catalog.MyShowOnApple>>)
        applePage == Answers(200, Catalog.ApplePage)
    IN  [ search |->
            { World(ln, pi, shows, applePage, BookingSite) :
                ln \in WorldAnswers.ln, pi \in WorldAnswers.pi }
            \cup { World(gary, pi, apple, applePage, BookingSite) :
                     pi \in WorldAnswers.pi, apple \in WorldAnswers.apple },
          enrich |->
            { World(gary, feeds, shows, applePage, site) :
                site \in SiteAnswers }
            \cup { World(gary, feeds, shows, page, BookingSite) :
                     page \in WorldAnswers.page },
          finder |->
            { [ site |-> [ k \in PathIds |->
                             IF k \in DOMAIN pages
                             THEN Answers(200, pages[k]) ELSE Down(k) ] ] :
                pages \in UNION { [live -> Docs \cup {JaneTwiceDoc}] :
                                   live \in { l \in SUBSET PathIds :
                                                Cardinality(l) <= MaxSitePages } } } ]

\* enrich_podcast looks for the website
LooksForWebsite(podcast) ==
    ~Truthy(podcast.website_url) /\ Truthy(podcast.primary_platform_url)

\* enrich_podcast, appleAnswer being what the fetch of the Apple page does and
\* pageAnswers what the fetches of urls_to_check do
EnrichPodcast(podcast, appleAnswer, pageAnswers) ==
    LET find_website == FindWebsite[podcast.apple_podcast_url][appleAnswer]
        website == IF LooksForWebsite(podcast) THEN find_website.website
                   ELSE podcast.website_url
        find_emails == FindEmails[website][pageAnswers]
    IN  [ raised |-> \/ (LooksForWebsite(podcast) /\ find_website.raised)
                     \/ (Truthy(website) /\ find_emails.raised),
          podcast |-> EnrichFields(podcast, website,
                                   IF Truthy(website) THEN find_emails.emails
                                   ELSE <<>>) ]

\* self.session as the fetches find it: "none", "open" or "closed"
SessionState == IF esession = 0 THEN "none" ELSE sessions[esession]

Request(to, answer) ==
    [ to |-> to, session |-> esession, state |-> SessionState,
      ok |-> answer.kind = "status" /\ answer.status = 200 ]

CloseSession_LeavesOpen(all, n) == all

\* if self.session: await self.session.close()
CloseSession(all, n) ==
    IF n # 0 THEN [all EXCEPT ![n] = "closed"] ELSE all

\* _scan_website: the contacts of the pages from the k-th path on, answers[k]
\* being what the fetch of the k-th page does
RECURSIVE ScanWebsite(_, _, _)
ScanWebsite(base_url, answers, k) ==
    IF k > Len(paths_to_check) THEN <<>>
    ELSE ScrapePageForEmails(PageUrl(base_url, paths_to_check[k]),
                             answers[k]).contacts
         \o ScanWebsite(base_url, answers, k + 1)

PodcastIndexAsked_IgnoresKey(credentials, results, max_results) ==
    Len(results) < max_results

\* if self.podcast_index_key and len(results) < max_results
PodcastIndexAsked(credentials, results, max_results) ==
    credentials.pi /\ Len(results) < max_results

InitEngine ==
    /\ session = "none"
    /\ pc = "idle"
    /\ website_url = None
    /\ web = <<>>
    /\ pathIdx = 0
    /\ all_contacts = <<>>
    /\ fetched = <<>>
    /\ result = <<>>
    /\ history = <<>>
    /\ call = NoCall
    /\ ret = <<>>
    /\ \/ /\ owner = "PodcastDiscoveryEngine"
          /\ creds \in [ln : BOOLEAN, pi : BOOLEAN]
          /\ world \in Worlds.search
       \/ /\ owner = "PodcastDiscoveryEngine"
          /\ creds = [ln |-> TRUE, pi |-> TRUE]
          /\ world \in Worlds.enrich
       \/ /\ owner = "ContactFinder"
          /\ creds = [ln |-> FALSE, pi |-> FALSE]
          /\ world \in Worlds.finder
    /\ esession = 0
    /\ sessions = <<>>
    /\ scope = "out"
    /\ requests = <<>>
    /\ found = <<>>
    /\ last = [op |-> "none"]
    /\ raised = FALSE

\* `async with obj:` is entered: __aenter__ of either class (session is
\* ContactFinder.session as the steps of the finder read it)
ScopeEnter ==
    /\ owner # "none"
    /\ scope = "out"
    /\ Len(sessions) < MaxScopes
    /\ sessions' = Append(sessions, "open")
    /\ esession' = Len(sessions) + 1
    /\ session' = IF owner = "ContactFinder" THEN "open" ELSE session
    /\ scope' = "in"
    /\ last' = [op |-> "__aenter__"]
    /\ requests' = <<>>
    /\ raised' = FALSE
    /\ UNCHANGED <<pc, website_url, web, pathIdx, all_contacts, fetched,
                   result, history, call, ret, owner, creds, found, world>>

\* The block is left, by its end or by an exception of the code in it:
\* __aexit__ of either class
ScopeExit ==
    /\ owner # "none"
    /\ scope = "in"
    /\ \E exc \in BOOLEAN : last' = [op |-> "__aexit__", exc |-> exc]
    /\ sessions' = CloseSession(sessions, esession)
    /\ session' = IF owner = "ContactFinder" /\ esession # 0
                  THEN sessions'[esession] ELSE session
    /\ scope' = "out"
    /\ UNCHANGED <<pc, website_url, web, pathIdx, all_contacts, fetched,
                   result, history, call, ret, owner, creds, esession,
                   requests, found, raised, world>>

\* find_contacts(site), from the call to the return
FindContactsCall ==
    /\ owner = "ContactFinder"
    /\ pc = "idle"
    /\ \E site \in WebsiteArgs :
         LET answers == [ k \in PathIds |-> Fetch(SessionState, world.site[k]) ]
             pool == (IF Truthy(site) THEN ScanWebsite(site, answers, 1)
                      ELSE <<>>)
                     \o CheckDirectories
         IN  /\ website_url' = site
             /\ all_contacts' = pool
             /\ fetched' = IF Truthy(site)
                           THEN [ k \in PathIds |->
                                    Fetched(PageUrl(site, paths_to_check[k]),
                                            answers[k]) ]
                           ELSE <<>>
             /\ requests' = IF Truthy(site)
                            THEN [ k \in PathIds |->
                                     Request(PageUrl(site, paths_to_check[k]),
                                             answers[k]) ]
                            ELSE <<>>
             /\ result' = TopTwo(RankContacts(pool))
             /\ last' = [op |-> "find_contacts"]
    /\ raised' = FALSE
    /\ UNCHANGED <<session, pc, web, pathIdx, history, call, ret, owner, creds,
                   esession, sessions, scope, found, world>>

SearchBySeedGuest ==
    /\ owner = "PodcastDiscoveryEngine"
    /\ \E guest_name \in {"Gary"}, max_results \in MaxResultsArgs :
         LET ln_answer == Fetch(SessionState, world.ln)
             pi_answer == Fetch(SessionState, world.pi)
             ln_search ==
                 SearchListenNotesGuest[ln_answer][guest_name][max_results]
             ln_results == IF creds.ln THEN ln_search.results ELSE <<>>
             pi_asked == PodcastIndexAsked(creds, ln_results, max_results)
             pi_search == SearchPodcastIndex[pi_answer]
             results == ln_results
                        \o (IF pi_asked THEN pi_search.results ELSE <<>>)
         IN  /\ requests' =
                    (IF creds.ln
                     THEN <<Request("listennotes", ln_answer)>>
                     ELSE <<>>)
                    \o (IF pi_asked
                        THEN <<Request("podcastindex", pi_answer)>>
                        ELSE <<>>)
             /\ raised' = \/ (creds.ln /\ ln_search.raised)
                          \/ (pi_asked /\ pi_search.raised)
             /\ found' = Take(UniqueResults(results, "seed:" \o guest_name,
                                            <<>>),
                              max_results)
             /\ last' = [ op |-> "search_by_seed_guest",
                          max_results |-> max_results,
                          first |-> ln_results, merged |-> results ]
    /\ UNCHANGED <<finderVars, call, ret, owner, creds, esession, sessions,
                   scope, world>>

SearchByCategory ==
    /\ owner = "PodcastDiscoveryEngine"
    /\ \E category_query \in {"fitness"}, max_results \in MaxResultsArgs :
         LET apple_answer == Fetch(SessionState, world.apple)
             pi_answer == Fetch(SessionState, world.pi)
             apple_search == SearchApplePodcasts[apple_answer]
             pi_asked == PodcastIndexAsked(creds, apple_search.results,
                                         max_results)
             pi_search == SearchPodcastIndex[pi_answer]
             results == apple_search.results
                        \o (IF pi_asked THEN pi_search.results ELSE <<>>)
         IN  /\ requests' =
                    <<Request("apple", apple_answer)>>
                    \o (IF pi_asked
                        THEN <<Request("podcastindex", pi_answer)>>
                        ELSE <<>>)
             /\ raised' = \/ apple_search.raised
                          \/ (pi_asked /\ pi_search.raised)
             /\ found' = Take(UniqueResults(results,
                                            "category:" \o category_query,
                                            <<>>),
                              max_results)
             /\ last' = [ op |-> "search_by_category",
                          max_results |-> max_results,
                          first |-> apple_search.results,
                          merged |-> results ]
    /\ UNCHANGED <<finderVars, call, ret, owner, creds, esession, sessions,
                   scope, world>>

\* enrich_podcast(found[i]): the podcast is changed in place
EnrichPodcastCall ==
    /\ owner = "PodcastDiscoveryEngine"
    /\ \E i \in 1..Len(found) :
         LET podcast == found[i]
             appleAnswer == Fetch(SessionState, world.page)
             pageAnswers == [ k \in 1..6 |-> Fetch(SessionState, world.site[k]) ]
             enriched == EnrichPodcast(podcast, appleAnswer, pageAnswers)
             website == enriched.podcast.website_url
         IN  /\ found' = [found EXCEPT ![i] = enriched.podcast]
             /\ raised' = enriched.raised
             /\ requests' =
                    (IF LooksForWebsite(podcast)
                        /\ Truthy(podcast.apple_podcast_url)
                     THEN <<Request(podcast.apple_podcast_url, appleAnswer)>>
                     ELSE <<>>)
                    \o (IF Truthy(website)
                        THEN [ k \in 1..6 |->
                                 Request(UrlsToCheck(website)[k], pageAnswers[k]) ]
                        ELSE <<>>)
             /\ last' = [ op |-> "enrich_podcast", index |-> i,
                          before |-> found ]
    /\ UNCHANGED <<finderVars, call, ret, owner, creds, esession, sessions,
                   scope, world>>

NextEngine ==
    \/ ScopeEnter
    \/ ScopeExit
    \/ FindContactsCall
    \/ SearchBySeedGuest
    \/ SearchByCategory
    \/ EnrichPodcastCall

SpecEngine == InitEngine /\ [][NextEngine]_vars

-----------------------------------------------------------------------------
(* C13: emails and their sources *)

EnrichReturned == last.op = "enrich_podcast"

SearchReturned == last.op \in {"search_by_seed_guest", "search_by_category"}

\* C13: in every state the searches and any number of enrich_podcast calls
\* reach, every podcast has a primary_email exactly when it has a
\* primary_email_source_url, and a backup_email exactly when it has a
\* backup_email_source_url (a field is set when it is not None).
C13_EmailIffSource ==
    \A k \in 1..Len(found) :
        /\ (found[k].primary_email # None)
               <=> (found[k].primary_email_source_url # None)
        /\ (found[k].backup_email # None)
               <=> (found[k].backup_email_source_url # None)

\* C13 witness: enrich_podcast has given a podcast both emails while another
\* podcast of the same search has none
C13_Witness ==
    /\ EnrichReturned
    /\ \E k \in 1..Len(found) :
           /\ found[k].primary_email # None
           /\ found[k].backup_email # None
           /\ found[k].backup_email_source_url # None
    /\ \E k \in 1..Len(found) : found[k].primary_email = None

-----------------------------------------------------------------------------
(* C14: what enrich_podcast changes *)

FrameFields ==
    { "show_name", "host_name", "primary_platform_url", "apple_podcast_url",
      "spotify_url", "show_description", "recent_episode_titles",
      "recent_guests", "discovery_source", "risk_signals", "dedupe_key" }

\* C14: enrich_podcast leaves show_name, host_name, the platform URLs, the
\* description, the episode titles, the guests, discovery_source,
\* risk_signals and dedupe_key of the podcast as they were, whatever the
\* fetches did; only website_url and the four email fields may differ.
C14_EnrichChangesOnlyContactFields ==
    EnrichReturned =>
        /\ Len(found) = Len(last.before)
        /\ \A field \in FrameFields :
               found[last.index][field] = last.before[last.index][field]

\* C14 witness: an enrich_podcast call that met failing fetches and changed
\* the website and the emails of the podcast
C14_Witness ==
    /\ EnrichReturned
    /\ \E k \in 1..Len(requests) : ~requests[k].ok
    /\ found[last.index].website_url # last.before[last.index].website_url
    /\ found[last.index].primary_email # last.before[last.index].primary_email
    /\ found[last.index].backup_email # last.before[last.index].backup_email

-----------------------------------------------------------------------------
(* C15: the deduplication of the merged results *)

\* The places of last.merged that hold the first result of their dedupe_key
FirstPlaces ==
    { k \in 1..Len(last.merged) :
        \A j \in 1..(k - 1) :
            last.merged[j].dedupe_key # last.merged[k].dedupe_key }

\* The n-th of them
NthFirstPlace(n) ==
    CHOOSE k \in FirstPlaces :
        Cardinality({ j \in FirstPlaces : j <= k }) = n

SameButSource(a, b) == [a EXCEPT !.discovery_source = ""]
                           = [b EXCEPT !.discovery_source = ""]

\* C15: the list a search returns holds no two results of one dedupe_key; the
\* results of the first collaborator come before those of Podcast Index in
\* the merge, the result kept for a key is the first of that key in the
\* merge, and the kept results stand in the order of the merge.
C15_FirstOfEachKeyInMergeOrder ==
    SearchReturned =>
        /\ \A j, k \in 1..Len(found) :
               found[j].dedupe_key = found[k].dedupe_key => j = k
        /\ SubSeq(last.merged, 1, Len(last.first)) = last.first
        /\ Len(found) <= Cardinality(FirstPlaces)
        /\ \A n \in 1..Len(found) :
               SameButSource(found[n], last.merged[NthFirstPlace(n)])

\* C15 witness: both collaborators answered, Podcast Index with a show the
\* first collaborator had already given, and two results were returned
C15_Witness ==
    /\ SearchReturned
    /\ Len(requests) = 2
    /\ Len(last.merged) > Len(last.first)
    /\ \E k \in (Len(last.first) + 1)..Len(last.merged) : k \notin FirstPlaces
    /\ Len(found) >= 2
    /\ Len(found) < Len(last.merged)

-----------------------------------------------------------------------------
(* C16: one show given by two collaborators *)

\* Two results of the merge are the same show as the claim has it: they come
\* from different collaborators, with different platform URLs on one host and
\* show names that normalize to the same string
SameShow(a, b) ==
    /\ a.primary_platform_url # b.primary_platform_url
    /\ Netloc(a.primary_platform_url) # ""
    /\ Netloc(a.primary_platform_url) = Netloc(b.primary_platform_url)
    /\ normalized_name(a.show_name) = normalized_name(b.show_name)

\* C16: two results merged in one search that come from different
\* collaborators, with different platform URLs on the same host and show
\* names that normalize to the same string, have the same dedupe_key, and the
\* search returns one podcast for them.
C16_SameShowCollapses ==
    SearchReturned =>
        \A j \in 1..Len(last.first) :
            \A k \in (Len(last.first) + 1)..Len(last.merged) :
                SameShow(last.merged[j], last.merged[k]) =>
                    /\ last.merged[j].dedupe_key = last.merged[k].dedupe_key
                    /\ ~\E m, n \in 1..Len(found) :
                           /\ m # n
                           /\ SameButSource(found[m], last.merged[j])
                           /\ SameButSource(found[n], last.merged[k])

-----------------------------------------------------------------------------
(* C18: missing credentials *)

RequestsTo(service) == { k \in 1..Len(requests) : requests[k].to = service }

\* C18: a search never calls a collaborator whose key is missing, and the
\* others still run: search_by_category without a Podcast Index key asks
\* Apple and returns its results; search_by_seed_guest without a Listen Notes
\* key still asks Podcast Index; with neither key it makes no request and
\* returns an empty list without raising.
C18_MissingKeySkipsCollaborator ==
    SearchReturned =>
        /\ ~creds.ln => RequestsTo("listennotes") = {}
        /\ ~creds.pi => RequestsTo("podcastindex") = {}
        /\ (last.op = "search_by_category" /\ ~creds.pi) =>
               /\ RequestsTo("apple") = {1}
               /\ last.merged = last.first
               /\ Len(found) = IF last.max_results < Cardinality(FirstPlaces)
                               THEN last.max_results
                               ELSE Cardinality(FirstPlaces)
               /\ \A n \in 1..Len(found) :
                      SameButSource(found[n], last.first[NthFirstPlace(n)])
        /\ (last.op = "search_by_seed_guest" /\ ~creds.ln /\ creds.pi) =>
               RequestsTo("podcastindex") = {1}
        /\ (last.op = "search_by_seed_guest" /\ ~creds.ln /\ ~creds.pi) =>
               /\ requests = <<>>
               /\ found = <<>>
               /\ ~raised

\* C18 witness: search_by_category without a Podcast Index key has returned
\* the two shows Apple gave
C18_Witness ==
    /\ last.op = "search_by_category"
    /\ ~creds.pi
    /\ Len(requests) = 1
    /\ requests[1].ok
    /\ Len(found) = 2

-----------------------------------------------------------------------------
(* C19: failing collaborators and pages *)

\* The requests of the last enrich_podcast call to the pages of the website
SiteRequests ==
    { k \in 1..Len(requests) : StartsWith(requests[k].to, "https://show.com") }

\* C19: no search and no enrich_podcast call lets an exception out; a
\* collaborator whose request raises, answers another status than 200 or
\* gives an unreadable body adds nothing to the merge, and what the other
\* collaborator gave is still returned; a page of the website that fails
\* does not keep enrich_podcast from taking the emails of the first page
\* that answers (every page of the website in Catalog holds a contact email).
C19_FailuresAreAbsorbed ==
    /\ ~raised
    /\ SearchReturned =>
           /\ \A k \in 1..Len(requests) :
                  ~requests[k].ok =>
                      IF requests[k].to = "podcastindex"
                      THEN last.merged = last.first
                      ELSE last.first = <<>>
           /\ last.merged # <<>> =>
                  /\ found # <<>>
                  /\ SameButSource(found[1], last.merged[1])
    /\ EnrichReturned =>
           \A k \in SiteRequests :
               (requests[k].ok /\ \A j \in SiteRequests : j < k => ~requests[j].ok)
                   => found[last.index].primary_email_source_url
                          = requests[k].to

\* C19 witness: the first collaborator failed and the search returned what
\* Podcast Index gave
C19_Witness ==
    /\ SearchReturned
    /\ Len(requests) = 2
    /\ ~requests[1].ok
    /\ requests[1].state = "open"
    /\ requests[2].ok
    /\ last.first = <<>>
    /\ Len(found) = 2

-----------------------------------------------------------------------------
(* C20: the HTTP session and the `async with` scope *)

OpenSessions == { k \in 1..Len(sessions) : sessions[k] = "open" }

\* C20: entering the scope of a ContactFinder or a PodcastDiscoveryEngine
\* creates one session and no other step creates one; leaving the scope, by
\* its end or by an exception, closes that session; inside the scope the
\* session of the object is the one its entry created, it is open, and every
\* request made there went through it; outside the scope no session is open.
C20_OneSessionPerScope ==
    /\ [](/\ Cardinality(OpenSessions) <= 1
          /\ scope = "out" => OpenSessions = {}
          /\ scope = "in" =>
                 /\ esession = Len(sessions)
                 /\ OpenSessions = {esession}
                 /\ \A k \in 1..Len(requests) :
                        /\ requests[k].session = esession
                        /\ requests[k].state = "open")
    /\ [][/\ (scope = "out" /\ scope' = "in") =>
                 /\ Len(sessions') = Len(sessions) + 1
                 /\ SubSeq(sessions', 1, Len(sessions)) = sessions
          /\ ~(scope = "out" /\ scope' = "in") =>
                 Len(sessions') = Len(sessions)
          /\ (scope = "in" /\ scope' = "out") =>
                 sessions'[esession] = "closed"]_vars

\* C20 witness: a second scope, in which requests were made, has been left by
\* an exception, and both sessions are closed
C20_Witness ==
    /\ last.op = "__aexit__"
    /\ last.exc
    /\ scope = "out"
    /\ Len(sessions) = 2
    /\ OpenSessions = {}
    /\ requests # <<>>
    /\ \A k \in 1..Len(requests) :
           requests[k].session = 2 /\ requests[k].state = "open"

-----------------------------------------------------------------------------
(* _search_apple_podcasts called on its own: the risk signals of a result *)

\* Apple answers 200 with one item, whose collectionName (None: the key is
\* absent) and description vary
InitRisk ==
    /\ FinderIdle
    /\ EngineIdle
    /\ \E t \in { None, "", "My Show", "The MAGA Hour", "Magazine Club",
                  "Adult Swim 18+", "Paid", "Solo", "ns" },
          d \in { "", "Interviews with guests", "guest spots. NSFW",
                  "show for everyone", "fw", "Politics, explained",
                  "POLITICAL MONOLOGUE", "From Trump to Biden: explicit talk",
                  "Buy a spot or sponsor an episode", "No interviews, a solo podcast",
                  "Democratic and Republican, liberal and conservative: buy a spot on this explicit solo show" } :
          call = [ fn |-> "_search_apple_podcasts",
                   answer |->
                       ApiAnswers(200,
                           << [ collectionName |-> t, artistName |-> None,
                                collectionViewUrl |->
                                    "https://podcasts.apple.com/us/podcast/x/id123",
                                description |-> d ] >>) ]
    /\ ret = <<>>

CallSearchApplePodcasts ==
    /\ call.fn = "_search_apple_podcasts"
    /\ ret = <<>>
    /\ LET answer == Fetch("open", call.answer)
       IN  ret' = << IF answer.kind = "status" /\ answer.status = 200
                     THEN [ k \in 1..Len(answer.items) |->
                              AppleResult(answer.items[k]) ]
                     ELSE <<>> >>
    /\ UNCHANGED <<finderVars, engineVars, call>>

SpecRisk == InitRisk /\ [][CallSearchApplePodcasts]_vars

-----------------------------------------------------------------------------
(* C21 *)

RiskReturned == call.fn = "_search_apple_podcasts" /\ Len(ret) = 1

\* The keyword list of each flag
RiskTerms ==
    [ POTENTIAL_POLITICS |->
          { "democrat", "republican", "trump", "biden", "maga", "liberal",
            "conservative", "political" },
      POTENTIAL_EXPLICIT |-> { "explicit", "adult", "nsfw", "18+" },
      POTENTIAL_PAID_GUEST |->
          { "sponsor a slot", "guest sponsorship", "paid guest", "buy a spot",
            "sponsor an episode" },
      POTENTIAL_NO_GUESTS |->
          { "solo show", "no interviews", "monologue", "solo podcast" } ]

\* The lower-cased title and description of the item searched, joined by a
\* space
RiskContent ==
    LET item == call.answer.items[1]
    IN  Lower((IF item.collectionName = None THEN "" ELSE item.collectionName)
              \o " "
              \o (IF item.description = None THEN "" ELSE item.description))

\* C21: the podcast built from an item is returned by the search whatever its
\* flags, and its risk_signals hold each of the four flags exactly once when
\* the lower-cased title and description contain a term of that flag's own
\* keyword list and not at all otherwise, whatever the other flags do; they
\* hold nothing else.
C21_EachFlagByItsOwnTerms ==
    RiskReturned =>
        /\ Len(ret[1]) = 1
        /\ LET signals == ret[1][1].risk_signals
           IN  /\ \A k \in 1..Len(signals) : signals[k] \in DOMAIN RiskTerms
               /\ \A flag \in DOMAIN RiskTerms :
                      Cardinality({ k \in 1..Len(signals) : signals[k] = flag })
                          = IF \E term \in RiskTerms[flag] :
                                   Contains(RiskContent, term)
                            THEN 1 ELSE 0

\* C21 witness: a result with two of the flags, one of them by a term that
\* starts in the title and ends in the description, is returned
C21_Witness ==
    /\ RiskReturned
    /\ call.answer.items[1].collectionName = "Paid"
    /\ call.answer.items[1].description = "guest spots. NSFW"
    /\ Len(ret[1]) = 1
    /\ ret[1][1].risk_signals = << "POTENTIAL_EXPLICIT", "POTENTIAL_PAID_GUEST" >>

-----------------------------------------------------------------------------
(* _is_valid_contact_email called on its own *)

\* The tokens validated: what stands before the domain, and the rest
InitContactValid ==
    /\ FinderIdle
    /\ EngineIdle
    /\ \E l \in { "info", "INFO", "myinfo", "inf", "support", "help", "helper",
                  "privacy", "legal", "abuse", "noreply", "no-reply",
                  "no_reply", "DoNotReply", "booking", "jane", "photo.png",
                  "logo.jpg", "pic.gif", "icon.svg", "" },
          d \in { "@show.com", "@noreply.org", "@cdn.show.com/x.PNG",
                  " at show.com", "" } :
          call = [fn |-> "_is_valid_contact_email", email |-> l \o d]
    /\ ret = <<>>

CallIsValidContactEmail ==
    /\ call.fn = "_is_valid_contact_email"
    /\ ret = <<>>
    /\ ret' = << IsValidContactEmail(call.email) >>
    /\ UNCHANGED <<finderVars, engineVars, call>>

SpecContactValid == InitContactValid /\ [][CallIsValidContactEmail]_vars

-----------------------------------------------------------------------------
(* C22 *)

ContactValidReturned == call.fn = "_is_valid_contact_email" /\ Len(ret) = 1

\* The deny-list of the enrichment path
EnrichmentDenyList ==
    { "noreply", "no-reply", "donotreply", "info@", "support@", "help@",
      "privacy@", "legal@", "abuse@", ".png", ".jpg", ".gif" }

\* C22: _is_valid_contact_email rejects a token exactly when its lower-cased
\* form contains a term of the enrichment deny-list and accepts every other
\* token; info@show.com is rejected by it and accepted by _is_valid_email of
\* the finder.
C22_RejectsExactlyTheDenyList ==
    ContactValidReturned =>
        /\ ret[1] = (~\E term \in EnrichmentDenyList :
                         Contains(Lower(call.email), term))
        /\ call.email = "info@show.com"
               => (~ret[1] /\ IsValidEmail(call.email))

\* C22 witness: info@show.com has been rejected
C22_Witness ==
    /\ ContactValidReturned
    /\ call.email = "info@show.com"
    /\ ret[1] = FALSE
    /\ IsValidEmail("info@show.com")

-----------------------------------------------------------------------------
(* C23 *)

WebmailDomains ==
    { "gmail.com", "yahoo.com", "outlook.com", "icloud.com", "me.com" }

\* C23: _classify_email returns host only for an address whose domain, the
\* part after the @, is exactly one of gmail.com, yahoo.com, outlook.com,
\* icloud.com and me.com; an address of any other domain, x@me.company.org
\* among them, is never classified host.
C23_HostOnlyOnWebmailDomain ==
    (ClassifyReturned /\ ret[1] = "host") =>
        /\ CountChar(call.email, "@") = 1
        /\ DomainPart(Lower(call.email)) \in WebmailDomains

-----------------------------------------------------------------------------
(* C24 *)

\* The addresses the mailto links of the page scanned give, lower-cased
MailtoAddresses ==
    LET links == SelectMailto(Anchors(call.links[1] \o call.links[2], 1))
    IN  { Lower(MailtoAddress(links[k].href)) : k \in 1..Len(links) }

\* C24: the confidence of every candidate of a page lies between 0.0 and 1.0
\* and follows from its extraction method and its type alone: a candidate of
\* a mailto link has 0.9 when it is classified booking and 0.7 otherwise, a
\* candidate of the free text has 0.6 whatever its type, however often the
\* address occurs (confidences are held in hundredths).
C24_ConfidenceByMethodAndType ==
    ScrapeReturned =>
        \A k \in 1..Len(ret[1]) :
            LET c == ret[1][k]
            IN  /\ c.confidence \in 0..100
                /\ c.confidence =
                       IF c.email \in MailtoAddresses
                       THEN (IF c.contact_type = "booking" THEN 90 ELSE 70)
                       ELSE 60

\* C24 witness: a page whose two mailto links give the same booking address,
\* twice at 0.9, and whose text gives a general address at 0.6
C24_Witness ==
    /\ ScrapeReturned
    /\ call.links[1] = "<a href=\"mailto:press@show.com\">Press</a>"
    /\ call.links[2] = "<a href=\"mailto:press@show.com\">Booking</a>"
    /\ call.text = " PRESS@show.com or jane@show.com"
    /\ Len(ret[1]) = 3
    /\ ret[1][1].confidence = 90
    /\ ret[1][2].confidence = 90
    /\ ret[1][3] = ContactResult("jane@show.com", call.url, "general", 60)

-----------------------------------------------------------------------------
(* C25 *)

FindContactsReturned == last.op = "find_contacts"

\* The key (type_priority, -confidence) of a is strictly better than that of b
BetterKey(a, b) ==
    \/ type_priority(a.contact_type) < type_priority(b.contact_type)
    \/ /\ type_priority(a.contact_type) = type_priority(b.contact_type)
       /\ a.confidence > b.confidence

\* What the claim says of the two slots, and of a call without a website
SlotsAndNoWebsite ==
    /\ result[2] # NoContact => result[1] # NoContact
    /\ (result[1] # NoContact /\ result[2] # NoContact)
           => result[1].email # result[2].email
    /\ ~Truthy(website_url)
           => (result = <<NoContact, NoContact>> /\ requests = <<>>)

-----------------------------------------------------------------------------
(* C26 *)

\* C26: after enrich_podcast, a podcast whose primary_email and backup_email
\* are both set has two different addresses in them.
C26_PrimaryAndBackupDiffer ==
    EnrichReturned =>
        \A k \in 1..Len(found) :
            (found[k].primary_email # None /\ found[k].backup_email # None)
                => found[k].primary_email # found[k].backup_email

-----------------------------------------------------------------------------
(* C27 *)

\* The podcast enrich_podcast was called on, before and after the call
EnrichedBefore == last.before[last.index]
EnrichedAfter == found[last.index]

\* The email fields, each with the field of its source
EmailSlots ==
    { [email |-> "primary_email", source |-> "primary_email_source_url"],
      [email |-> "backup_email", source |-> "backup_email_source_url"] }

\* The six urls probed for a website
ProbedUrls(site) ==
    { site } \cup { RStripSlash(site) \o path :
                      path \in { "/contact", "/contact-us", "/about", "/guest",
                                 "/be-a-guest" } }

\* C27: every email enrich_podcast writes into a podcast comes with a source
\* that is one of the six urls probed for the website of the podcast, and the
\* fetch of that url answered 200 in the same call; for a podcast that has no
\* website_url and for which none is found no page is probed and the four
\* email fields stay as they were.
C27_WrittenEmailsHaveProbedSource ==
    EnrichReturned =>
        /\ \A slot \in EmailSlots :
               (\/ EnrichedAfter[slot.email] # EnrichedBefore[slot.email]
                \/ EnrichedAfter[slot.source] # EnrichedBefore[slot.source])
                   => /\ Truthy(EnrichedAfter.website_url)
                      /\ EnrichedAfter[slot.email] # None
                      /\ EnrichedAfter[slot.source]
                             \in ProbedUrls(EnrichedAfter.website_url)
                      /\ \E r \in 1..Len(requests) :
                             /\ requests[r].to = EnrichedAfter[slot.source]
                             /\ requests[r].ok
        /\ ~Truthy(EnrichedAfter.website_url)
               => /\ \A r \in 1..Len(requests) :
                         requests[r].to = EnrichedBefore.apple_podcast_url
                  /\ \A slot \in EmailSlots :
                         /\ EnrichedAfter[slot.email] = EnrichedBefore[slot.email]
                         /\ EnrichedAfter[slot.source] = EnrichedBefore[slot.source]

\* C27 witness: enrich_podcast wrote both emails from the one page of the six
\* that answered 200, the page at /contact
C27_Witness ==
    /\ EnrichReturned
    /\ EnrichedBefore.primary_email = None
    /\ EnrichedAfter.primary_email = "booking@show.com"
    /\ EnrichedAfter.primary_email_source_url = "https://show.com/contact"
    /\ EnrichedAfter.backup_email = "team@show.com"
    /\ EnrichedAfter.backup_email_source_url = "https://show.com/contact"
    /\ \E r \in 1..Len(requests) :
           requests[r].to = "https://show.com" /\ ~requests[r].ok

=============================================================================
